---------------------------- MODULE Spec2Model ----------------------------
(***************************************************************************)
(* Model of the trend extraction pipeline of reddit_analyzer:              *)
(*   data_preprocessor.py   FashionDataPreprocessor                        *)
(*   realtime_fashion_scraper.py   RealtimeFashionScraper                  *)
(*   web_search_analyzer.py   WebSearchAnalyzer                            *)
(*   llm_analyzer.py   LLMFashionAnalyzer (aggregations and report)        *)
(*   config.py   Config.INDIAN_FASHION_KEYWORDS, Config.INDIAN_REGIONS     *)
(*                                                                         *)
(* A Python str is a sequence of one-character strings, so that substring  *)
(* tests, lower() and the regular expressions of clean_text are computed   *)
(* character by character.  Taxonomy terms are TLA+ strings; Spell gives   *)
(* the characters of a term.                                               *)
(***************************************************************************)
EXTENDS Integers, Sequences, FiniteSets, TLC

VARIABLES
  set_order,        \* iteration order of Python sets of str in this process
  pc,               \* position of each component
  call,             \* last call: name, arguments, result, exception raised
  raw_data,         \* FashionDataPreprocessor.raw_data
  cleaned_data,     \* FashionDataPreprocessor.cleaned_data, and the posts the
                    \* LLMFashionAnalyzer loads from the file saved from it
  search_results,   \* WebSearchAnalyzer.search_results
  reddit_keywords_arg,  \* argument of the last compare_reddit_web_trends call
  comparison,       \* result of the last compare_reddit_web_trends call
  searched,         \* the calls of search_web_trends so far: query and response
  fashion_data,     \* RealtimeFashionScraper.fashion_data
  corpus_file,      \* the content of output/fashion_corpus.json
  scrape            \* position and local variables of the running scraper

vars == <<set_order, pc, call, raw_data, cleaned_data, search_results,
          reddit_keywords_arg, comparison, searched, fashion_data, corpus_file,
          scrape>>

(***************************************************************************)
(* Configuration: config.py                                                *)
(***************************************************************************)
FacetNames == <<"traditional", "modern_indian", "indian_brands", "indian_styles", "indian_accessories", "indian_colors", "indian_fabrics">>

INDIAN_FASHION_KEYWORDS ==
  ("traditional" :> <<"saree", "salwar", "kameez", "lehenga", "anarkali", "kurta", "dhoti", "mundu", "ghagra", "choli", "dupatta", "pallu", "pallav", "zari", "zardosi", "embroidery", "bandhani", "ikat", "block_print", "ajrakh", "kalamkari", "phulkari", "chikankari">>) @@
  ("modern_indian" :> <<"indian_western", "fusion_wear", "contemporary_indian", "modern_saree", "indian_casual", "ethnic_casual", "indian_formal", "indian_party_wear">>) @@
  ("indian_brands" :> <<"fabindia", "anita_dongre", "sabyasachi", "manish_malhotra", "tarun_tahiliani", "rohit_bal", "satya_paul", "w_for_woman", "biba", "global_desai", "masaba", "payal_khandwala", "ridhi_mehra", "suket_dhir", "abraham_thakore">>) @@
  ("indian_styles" :> <<"indian_streetwear", "desi_aesthetic", "indian_minimalist", "indian_bohemian", "indian_preppy", "indian_gothic", "indian_vintage", "indian_retro">>) @@
  ("indian_accessories" :> <<"jhumka", "kundan", "polki", "meenakari", "thewa", "lac_bangles", "indian_jewelry", "traditional_jewelry", "indian_bags", "indian_footwear", "kolhapuri", "mojari", "jutti", "indian_scarves", "indian_belts">>) @@
  ("indian_colors" :> <<"indian_red", "saffron", "turmeric_yellow", "mehendi_green", "indigo", "rose_pink", "marigold", "lotus_pink", "peacock_blue", "mango_yellow">>) @@
  ("indian_fabrics" :> <<"silk", "cotton", "khadi", "linen", "wool", "jute", "bamboo_fabric", "banana_fiber", "lotus_fiber", "organic_cotton", "handloom", "powerloom">>)

RegionNames == <<"North_India", "South_India", "East_India", "West_India", "Central_India", "Northeast_India">>

INDIAN_REGIONS ==
  ("North_India" :> <<"delhi", "punjab", "haryana", "rajasthan", "uttar_pradesh", "himachal">>) @@
  ("South_India" :> <<"karnataka", "tamil_nadu", "kerala", "andhra_pradesh", "telangana">>) @@
  ("East_India" :> <<"west_bengal", "bihar", "odisha", "jharkhand", "assam">>) @@
  ("West_India" :> <<"maharashtra", "gujarat", "goa", "madhya_pradesh">>) @@
  ("Central_India" :> <<"chhattisgarh", "madhya_pradesh">>) @@
  ("Northeast_India" :> <<"assam", "manipur", "meghalaya", "nagaland", "tripura">>)

Spell ==
  ("saree" :> <<"s", "a", "r", "e", "e">>) @@
  ("salwar" :> <<"s", "a", "l", "w", "a", "r">>) @@
  ("kameez" :> <<"k", "a", "m", "e", "e", "z">>) @@
  ("lehenga" :> <<"l", "e", "h", "e", "n", "g", "a">>) @@
  ("anarkali" :> <<"a", "n", "a", "r", "k", "a", "l", "i">>) @@
  ("kurta" :> <<"k", "u", "r", "t", "a">>) @@
  ("dhoti" :> <<"d", "h", "o", "t", "i">>) @@
  ("mundu" :> <<"m", "u", "n", "d", "u">>) @@
  ("ghagra" :> <<"g", "h", "a", "g", "r", "a">>) @@
  ("choli" :> <<"c", "h", "o", "l", "i">>) @@
  ("dupatta" :> <<"d", "u", "p", "a", "t", "t", "a">>) @@
  ("pallu" :> <<"p", "a", "l", "l", "u">>) @@
  ("pallav" :> <<"p", "a", "l", "l", "a", "v">>) @@
  ("zari" :> <<"z", "a", "r", "i">>) @@
  ("zardosi" :> <<"z", "a", "r", "d", "o", "s", "i">>) @@
  ("embroidery" :> <<"e", "m", "b", "r", "o", "i", "d", "e", "r", "y">>) @@
  ("bandhani" :> <<"b", "a", "n", "d", "h", "a", "n", "i">>) @@
  ("ikat" :> <<"i", "k", "a", "t">>) @@
  ("block_print" :> <<"b", "l", "o", "c", "k", "_", "p", "r", "i", "n", "t">>) @@
  ("ajrakh" :> <<"a", "j", "r", "a", "k", "h">>) @@
  ("kalamkari" :> <<"k", "a", "l", "a", "m", "k", "a", "r", "i">>) @@
  ("phulkari" :> <<"p", "h", "u", "l", "k", "a", "r", "i">>) @@
  ("chikankari" :> <<"c", "h", "i", "k", "a", "n", "k", "a", "r", "i">>) @@
  ("indian_western" :> <<"i", "n", "d", "i", "a", "n", "_", "w", "e", "s", "t", "e", "r", "n">>) @@
  ("fusion_wear" :> <<"f", "u", "s", "i", "o", "n", "_", "w", "e", "a", "r">>) @@
  ("contemporary_indian" :> <<"c", "o", "n", "t", "e", "m", "p", "o", "r", "a", "r", "y", "_", "i", "n", "d", "i", "a", "n">>) @@
  ("modern_saree" :> <<"m", "o", "d", "e", "r", "n", "_", "s", "a", "r", "e", "e">>) @@
  ("indian_casual" :> <<"i", "n", "d", "i", "a", "n", "_", "c", "a", "s", "u", "a", "l">>) @@
  ("ethnic_casual" :> <<"e", "t", "h", "n", "i", "c", "_", "c", "a", "s", "u", "a", "l">>) @@
  ("indian_formal" :> <<"i", "n", "d", "i", "a", "n", "_", "f", "o", "r", "m", "a", "l">>) @@
  ("indian_party_wear" :> <<"i", "n", "d", "i", "a", "n", "_", "p", "a", "r", "t", "y", "_", "w", "e", "a", "r">>) @@
  ("fabindia" :> <<"f", "a", "b", "i", "n", "d", "i", "a">>) @@
  ("anita_dongre" :> <<"a", "n", "i", "t", "a", "_", "d", "o", "n", "g", "r", "e">>) @@
  ("sabyasachi" :> <<"s", "a", "b", "y", "a", "s", "a", "c", "h", "i">>) @@
  ("manish_malhotra" :> <<"m", "a", "n", "i", "s", "h", "_", "m", "a", "l", "h", "o", "t", "r", "a">>) @@
  ("tarun_tahiliani" :> <<"t", "a", "r", "u", "n", "_", "t", "a", "h", "i", "l", "i", "a", "n", "i">>) @@
  ("rohit_bal" :> <<"r", "o", "h", "i", "t", "_", "b", "a", "l">>) @@
  ("satya_paul" :> <<"s", "a", "t", "y", "a", "_", "p", "a", "u", "l">>) @@
  ("w_for_woman" :> <<"w", "_", "f", "o", "r", "_", "w", "o", "m", "a", "n">>) @@
  ("biba" :> <<"b", "i", "b", "a">>) @@
  ("global_desai" :> <<"g", "l", "o", "b", "a", "l", "_", "d", "e", "s", "a", "i">>) @@
  ("masaba" :> <<"m", "a", "s", "a", "b", "a">>) @@
  ("payal_khandwala" :> <<"p", "a", "y", "a", "l", "_", "k", "h", "a", "n", "d", "w", "a", "l", "a">>) @@
  ("ridhi_mehra" :> <<"r", "i", "d", "h", "i", "_", "m", "e", "h", "r", "a">>) @@
  ("suket_dhir" :> <<"s", "u", "k", "e", "t", "_", "d", "h", "i", "r">>) @@
  ("abraham_thakore" :> <<"a", "b", "r", "a", "h", "a", "m", "_", "t", "h", "a", "k", "o", "r", "e">>) @@
  ("indian_streetwear" :> <<"i", "n", "d", "i", "a", "n", "_", "s", "t", "r", "e", "e", "t", "w", "e", "a", "r">>) @@
  ("desi_aesthetic" :> <<"d", "e", "s", "i", "_", "a", "e", "s", "t", "h", "e", "t", "i", "c">>) @@
  ("indian_minimalist" :> <<"i", "n", "d", "i", "a", "n", "_", "m", "i", "n", "i", "m", "a", "l", "i", "s", "t">>) @@
  ("indian_bohemian" :> <<"i", "n", "d", "i", "a", "n", "_", "b", "o", "h", "e", "m", "i", "a", "n">>) @@
  ("indian_preppy" :> <<"i", "n", "d", "i", "a", "n", "_", "p", "r", "e", "p", "p", "y">>) @@
  ("indian_gothic" :> <<"i", "n", "d", "i", "a", "n", "_", "g", "o", "t", "h", "i", "c">>) @@
  ("indian_vintage" :> <<"i", "n", "d", "i", "a", "n", "_", "v", "i", "n", "t", "a", "g", "e">>) @@
  ("indian_retro" :> <<"i", "n", "d", "i", "a", "n", "_", "r", "e", "t", "r", "o">>) @@
  ("jhumka" :> <<"j", "h", "u", "m", "k", "a">>) @@
  ("kundan" :> <<"k", "u", "n", "d", "a", "n">>) @@
  ("polki" :> <<"p", "o", "l", "k", "i">>) @@
  ("meenakari" :> <<"m", "e", "e", "n", "a", "k", "a", "r", "i">>) @@
  ("thewa" :> <<"t", "h", "e", "w", "a">>) @@
  ("lac_bangles" :> <<"l", "a", "c", "_", "b", "a", "n", "g", "l", "e", "s">>) @@
  ("indian_jewelry" :> <<"i", "n", "d", "i", "a", "n", "_", "j", "e", "w", "e", "l", "r", "y">>) @@
  ("traditional_jewelry" :> <<"t", "r", "a", "d", "i", "t", "i", "o", "n", "a", "l", "_", "j", "e", "w", "e", "l", "r", "y">>) @@
  ("indian_bags" :> <<"i", "n", "d", "i", "a", "n", "_", "b", "a", "g", "s">>) @@
  ("indian_footwear" :> <<"i", "n", "d", "i", "a", "n", "_", "f", "o", "o", "t", "w", "e", "a", "r">>) @@
  ("kolhapuri" :> <<"k", "o", "l", "h", "a", "p", "u", "r", "i">>) @@
  ("mojari" :> <<"m", "o", "j", "a", "r", "i">>) @@
  ("jutti" :> <<"j", "u", "t", "t", "i">>) @@
  ("indian_scarves" :> <<"i", "n", "d", "i", "a", "n", "_", "s", "c", "a", "r", "v", "e", "s">>) @@
  ("indian_belts" :> <<"i", "n", "d", "i", "a", "n", "_", "b", "e", "l", "t", "s">>) @@
  ("indian_red" :> <<"i", "n", "d", "i", "a", "n", "_", "r", "e", "d">>) @@
  ("saffron" :> <<"s", "a", "f", "f", "r", "o", "n">>) @@
  ("turmeric_yellow" :> <<"t", "u", "r", "m", "e", "r", "i", "c", "_", "y", "e", "l", "l", "o", "w">>) @@
  ("mehendi_green" :> <<"m", "e", "h", "e", "n", "d", "i", "_", "g", "r", "e", "e", "n">>) @@
  ("indigo" :> <<"i", "n", "d", "i", "g", "o">>) @@
  ("rose_pink" :> <<"r", "o", "s", "e", "_", "p", "i", "n", "k">>) @@
  ("marigold" :> <<"m", "a", "r", "i", "g", "o", "l", "d">>) @@
  ("lotus_pink" :> <<"l", "o", "t", "u", "s", "_", "p", "i", "n", "k">>) @@
  ("peacock_blue" :> <<"p", "e", "a", "c", "o", "c", "k", "_", "b", "l", "u", "e">>) @@
  ("mango_yellow" :> <<"m", "a", "n", "g", "o", "_", "y", "e", "l", "l", "o", "w">>) @@
  ("silk" :> <<"s", "i", "l", "k">>) @@
  ("cotton" :> <<"c", "o", "t", "t", "o", "n">>) @@
  ("khadi" :> <<"k", "h", "a", "d", "i">>) @@
  ("linen" :> <<"l", "i", "n", "e", "n">>) @@
  ("wool" :> <<"w", "o", "o", "l">>) @@
  ("jute" :> <<"j", "u", "t", "e">>) @@
  ("bamboo_fabric" :> <<"b", "a", "m", "b", "o", "o", "_", "f", "a", "b", "r", "i", "c">>) @@
  ("banana_fiber" :> <<"b", "a", "n", "a", "n", "a", "_", "f", "i", "b", "e", "r">>) @@
  ("lotus_fiber" :> <<"l", "o", "t", "u", "s", "_", "f", "i", "b", "e", "r">>) @@
  ("organic_cotton" :> <<"o", "r", "g", "a", "n", "i", "c", "_", "c", "o", "t", "t", "o", "n">>) @@
  ("handloom" :> <<"h", "a", "n", "d", "l", "o", "o", "m">>) @@
  ("powerloom" :> <<"p", "o", "w", "e", "r", "l", "o", "o", "m">>) @@
  ("delhi" :> <<"d", "e", "l", "h", "i">>) @@
  ("punjab" :> <<"p", "u", "n", "j", "a", "b">>) @@
  ("haryana" :> <<"h", "a", "r", "y", "a", "n", "a">>) @@
  ("rajasthan" :> <<"r", "a", "j", "a", "s", "t", "h", "a", "n">>) @@
  ("uttar_pradesh" :> <<"u", "t", "t", "a", "r", "_", "p", "r", "a", "d", "e", "s", "h">>) @@
  ("himachal" :> <<"h", "i", "m", "a", "c", "h", "a", "l">>) @@
  ("karnataka" :> <<"k", "a", "r", "n", "a", "t", "a", "k", "a">>) @@
  ("tamil_nadu" :> <<"t", "a", "m", "i", "l", "_", "n", "a", "d", "u">>) @@
  ("kerala" :> <<"k", "e", "r", "a", "l", "a">>) @@
  ("andhra_pradesh" :> <<"a", "n", "d", "h", "r", "a", "_", "p", "r", "a", "d", "e", "s", "h">>) @@
  ("telangana" :> <<"t", "e", "l", "a", "n", "g", "a", "n", "a">>) @@
  ("west_bengal" :> <<"w", "e", "s", "t", "_", "b", "e", "n", "g", "a", "l">>) @@
  ("bihar" :> <<"b", "i", "h", "a", "r">>) @@
  ("odisha" :> <<"o", "d", "i", "s", "h", "a">>) @@
  ("jharkhand" :> <<"j", "h", "a", "r", "k", "h", "a", "n", "d">>) @@
  ("assam" :> <<"a", "s", "s", "a", "m">>) @@
  ("maharashtra" :> <<"m", "a", "h", "a", "r", "a", "s", "h", "t", "r", "a">>) @@
  ("gujarat" :> <<"g", "u", "j", "a", "r", "a", "t">>) @@
  ("goa" :> <<"g", "o", "a">>) @@
  ("madhya_pradesh" :> <<"m", "a", "d", "h", "y", "a", "_", "p", "r", "a", "d", "e", "s", "h">>) @@
  ("chhattisgarh" :> <<"c", "h", "h", "a", "t", "t", "i", "s", "g", "a", "r", "h">>) @@
  ("manipur" :> <<"m", "a", "n", "i", "p", "u", "r">>) @@
  ("meghalaya" :> <<"m", "e", "g", "h", "a", "l", "a", "y", "a">>) @@
  ("nagaland" :> <<"n", "a", "g", "a", "l", "a", "n", "d">>) @@
  ("tripura" :> <<"t", "r", "i", "p", "u", "r", "a">>) @@
  ("fashion" :> <<"f", "a", "s", "h", "i", "o", "n">>) @@
  ("style" :> <<"s", "t", "y", "l", "e">>) @@
  ("outfit" :> <<"o", "u", "t", "f", "i", "t">>) @@
  ("clothing" :> <<"c", "l", "o", "t", "h", "i", "n", "g">>) @@
  ("dress" :> <<"d", "r", "e", "s", "s">>) @@
  ("wear" :> <<"w", "e", "a", "r">>) @@
  ("look" :> <<"l", "o", "o", "k">>) @@
  ("outfits" :> <<"o", "u", "t", "f", "i", "t", "s">>) @@
  ("streetwear" :> <<"s", "t", "r", "e", "e", "t", "w", "e", "a", "r">>) @@
  ("indian" :> <<"i", "n", "d", "i", "a", "n">>)
(***************************************************************************)
(* Characters and strings                                                  *)
(***************************************************************************)
LowerLetters ==
  {"a","b","c","d","e","f","g","h","i","j","k","l","m",
   "n","o","p","q","r","s","t","u","v","w","x","y","z"}

UpperToLower ==
  ("A" :> "a") @@ ("B" :> "b") @@ ("C" :> "c") @@ ("D" :> "d") @@ ("E" :> "e") @@
  ("F" :> "f") @@ ("G" :> "g") @@ ("H" :> "h") @@ ("I" :> "i") @@ ("J" :> "j") @@
  ("K" :> "k") @@ ("L" :> "l") @@ ("M" :> "m") @@ ("N" :> "n") @@ ("O" :> "o") @@
  ("P" :> "p") @@ ("Q" :> "q") @@ ("R" :> "r") @@ ("S" :> "s") @@ ("T" :> "t") @@
  ("U" :> "u") @@ ("V" :> "v") @@ ("W" :> "w") @@ ("X" :> "x") @@ ("Y" :> "y") @@
  ("Z" :> "z")

UpperLetters == DOMAIN UpperToLower

Digits == {"0","1","2","3","4","5","6","7","8","9"}

\* \w of the re module: letters, digits and the underscore
WordChars == LowerLetters \cup UpperLetters \cup Digits \cup {"_"}

\* \s of the re module
SpaceChars == {" ", "\t", "\n"}

\* the character class of the URL pattern after the scheme:
\* [a-zA-Z] | [0-9] | [$-_@.&+] (the range '$'..'_') | [!*\\(\\),] | %XX
UrlChars ==
  LowerLetters \cup UpperLetters \cup Digits \cup
  {"$","%","&","'","(",")","*","+",",","-",".","/",":",";","<","=",">","?","@",
   "[","\\","]","^","_","!"}

\* str.lower()
Lower(t) == [i \in 1..Len(t) |-> IF t[i] \in UpperLetters THEN UpperToLower[t[i]] ELSE t[i]]

\* w in t
IsSubstring(w, t) ==
  \/ Len(w) = 0
  \/ \E i \in 1..(Len(t) - Len(w) + 1) :
       /\ t[i] = w[1]
       /\ \A j \in 1..Len(w) : t[i + j - 1] = w[j]

\* t1 + ' ' + t2
Join(t1, t2) == t1 \o <<" ">> \o t2

ToSet(s) == {s[i] : i \in 1..Len(s)}

NoDuplicates(s) == \A i, j \in 1..Len(s) : i # j => s[i] # s[j]

(***************************************************************************)
(* Values read from JSON                                                   *)
(***************************************************************************)
\* A field of a post holds a str, null (None), or a value of another type.
\* None and the other value are one-element sequences holding a marker that
\* is no character, so that they compare with a str.
None == <<"None">>

\* a value that is neither a str nor falsy, such as the number 5
NotText == <<"int">>

IsStr(v) == v \notin {None, NotText}

\* a post that is no mapping, such as a JSON string
NotMapping == [py |-> "str"]

IsMapping(post) == "py" \notin DOMAIN post

\* post.get(key, default)
Get(post, key, default) == IF key \in DOMAIN post THEN post[key] ELSE default

(***************************************************************************)
(* FashionDataPreprocessor.clean_text                                      *)
(***************************************************************************)
\* t[i..] starts with the characters of w
HasAt(t, i, w) ==
  /\ i + Len(w) - 1 <= Len(t)
  /\ \A j \in 1..Len(w) : t[i + j - 1] = w[j]

\* index of the first character at or after p that is in S, Len(t)+1 if none
RECURSIVE FirstIn(_, _, _)
FirstIn(t, p, S) ==
  IF p > Len(t) THEN Len(t) + 1
  ELSE IF t[p] \in S THEN p
  ELSE FirstIn(t, p + 1, S)

\* index of the first character at or after p that is not in S, Len(t)+1 if none
RECURSIVE FirstNotIn(_, _, _)
FirstNotIn(t, p, S) ==
  IF p > Len(t) THEN Len(t) + 1
  ELSE IF t[p] \notin S THEN p
  ELSE FirstNotIn(t, p + 1, S)

\* http[s]?://(?:...)+ matched at i: index of the last matched character, 0 if no match
UrlMatchEnd(t, i) ==
  LET p == IF HasAt(t, i, <<"h","t","t","p","s",":","/","/">>) THEN i + 8
           ELSE IF HasAt(t, i, <<"h","t","t","p",":","/","/">>) THEN i + 7
           ELSE 0
      e == FirstNotIn(t, p, UrlChars)
  IN IF p = 0 \/ e = p THEN 0 ELSE e - 1

\* re.sub(url pattern, '', text)
RECURSIVE RemoveUrlsFrom(_, _)
RemoveUrlsFrom(t, i) ==
  IF i > Len(t) THEN <<>>
  ELSE LET e == UrlMatchEnd(t, i)
       IN IF e > 0 THEN RemoveUrlsFrom(t, e + 1)
          ELSE <<t[i]>> \o RemoveUrlsFrom(t, i + 1)

RemoveUrls(t) == RemoveUrlsFrom(t, 1)

\* \[([^\]]+)\]\([^)]+\) matched at i: <<index of ']', index of ')'>>, <<0, 0>> if no match
LinkMatch(t, i) ==
  IF i > Len(t) \/ t[i] # "[" THEN <<0, 0>>
  ELSE LET j == FirstIn(t, i + 1, {"]"})
       IN IF j > Len(t) \/ j < i + 2 \/ j + 1 > Len(t) \/ t[j + 1] # "(" THEN <<0, 0>>
          ELSE LET k == FirstIn(t, j + 2, {")"})
               IN IF k > Len(t) \/ k < j + 3 THEN <<0, 0>> ELSE <<j, k>>

\* re.sub(r'\[([^\]]+)\]\([^)]+\)', r'\1', text)
RECURSIVE RemoveLinksFrom(_, _)
RemoveLinksFrom(t, i) ==
  IF i > Len(t) THEN <<>>
  ELSE LET m == LinkMatch(t, i)
       IN IF m[1] > 0 THEN SubSeq(t, i + 1, m[1] - 1) \o RemoveLinksFrom(t, m[2] + 1)
          ELSE <<t[i]>> \o RemoveLinksFrom(t, i + 1)

RemoveLinks(t) == RemoveLinksFrom(t, 1)

\* n stars, ([^*]+), n stars matched at i: index of the first closing star, 0 if no match
EmphasisMatch(t, i, n) ==
  IF ~ (i + n - 1 <= Len(t) /\ \A d \in 0..(n - 1) : t[i + d] = "*") THEN 0
  ELSE LET j == FirstIn(t, i + n, {"*"})
       IN IF j < i + n + 1 \/ j + n - 1 > Len(t) THEN 0
          ELSE IF \A d \in 0..(n - 1) : t[j + d] = "*" THEN j ELSE 0

\* re.sub(r'\*\*([^*]+)\*\*', r'\1', text) for n = 2, re.sub(r'\*([^*]+)\*', r'\1', text) for n = 1
RECURSIVE RemoveEmphasisFrom(_, _, _)
RemoveEmphasisFrom(t, i, n) ==
  IF i > Len(t) THEN <<>>
  ELSE LET j == EmphasisMatch(t, i, n)
       IN IF j > 0 THEN SubSeq(t, i + n, j - 1) \o RemoveEmphasisFrom(t, j + n, n)
          ELSE <<t[i]>> \o RemoveEmphasisFrom(t, i + 1, n)

RemoveBold(t) == RemoveEmphasisFrom(t, 1, 2)

RemoveItalic(t) == RemoveEmphasisFrom(t, 1, 1)

\* re.sub(r'[^\w\s]', ' ', text)
ReplaceSpecial(t) ==
  [i \in 1..Len(t) |-> IF t[i] \in WordChars \cup SpaceChars THEN t[i] ELSE " "]

\* re.sub(r'\s+', ' ', text)
RECURSIVE CollapseFrom(_, _)
CollapseFrom(t, i) ==
  IF i > Len(t) THEN <<>>
  ELSE IF t[i] \in SpaceChars THEN <<" ">> \o CollapseFrom(t, FirstNotIn(t, i, SpaceChars))
  ELSE <<t[i]>> \o CollapseFrom(t, i + 1)

CollapseSpaces(t) == CollapseFrom(t, 1)

\* str.strip()
Strip(t) ==
  LET a == FirstNotIn(t, 1, SpaceChars)
      b == IF a > Len(t) THEN 0
           ELSE CHOOSE k \in a..Len(t) :
                  t[k] \notin SpaceChars /\ \A m \in (k + 1)..Len(t) : t[m] \in SpaceChars
  IN SubSeq(t, a, b)

\* the same steps with the whitespace step ahead of the special-character step
clean_text_reordered(text) ==
  IF text = None \/ Len(text) = 0 THEN <<>>
  ELSE ReplaceSpecial(Strip(CollapseSpaces(
         RemoveItalic(RemoveBold(RemoveLinks(RemoveUrls(text)))))))

clean_text(text) ==
  IF text = None \/ Len(text) = 0 THEN <<>>
  ELSE Strip(CollapseSpaces(ReplaceSpecial(
         RemoveItalic(RemoveBold(RemoveLinks(RemoveUrls(text)))))))

\* the exception raised without the "if not text" test
clean_text_raises_unguarded(text) ==
  IF IsStr(text) THEN "none" ELSE "TypeError"

\* the exception clean_text(text) raises, "none" when it returns: a falsy
\* text returns at once, re.sub raises TypeError on a value that is no str
clean_text_raises(text) ==
  IF text = None \/ Len(text) = 0 \/ IsStr(text) THEN "none" ELSE "TypeError"

\* "I bought a new kurtain"
Txt_kurtain == <<"I", " ", "b", "o", "u", "g", "h", "t", " ", "a", " ", "n", "e", "w", " ", "k", "u", "r", "t", "a", "i", "n">>

\* "Saree look!"
Txt_saree_look == <<"S", "a", "r", "e", "e", " ", "l", "o", "o", "k", "!">>

\* "New look"
Txt_new_look == <<"N", "e", "w", " ", "l", "o", "o", "k">>

\* "hello"
Txt_hello == <<"h", "e", "l", "l", "o">>

\* "[assam](http://x.in)"
Txt_assam_link == <<"[", "a", "s", "s", "a", "m", "]", "(", "h", "t", "t", "p", ":", "/", "/", "x", ".", "i", "n", ")">>

\* "http://saree.in"
Txt_url_saree == <<"h", "t", "t", "p", ":", "/", "/", "s", "a", "r", "e", "e", ".", "i", "n">>

\* "https://shop.in/p#saree"
Txt_url_fragment == <<"h", "t", "t", "p", "s", ":", "/", "/", "s", "h", "o", "p", ".", "i", "n", "/", "p", "#", "s", "a", "r", "e", "e">>

\* "zari ikat silk wool jute biba saree kurta"
Txt_many_terms == <<"z", "a", "r", "i", " ", "i", "k", "a", "t", " ", "s", "i", "l", "k", " ", "w", "o", "o", "l", " ", "j", "u", "t", "e", " ", "b", "i", "b", "a", " ", "s", "a", "r", "e", "e", " ", "k", "u", "r", "t", "a">>

\* "dhoti mundu choli pallu khadi linen polki thewa"
Txt_more_terms == <<"d", "h", "o", "t", "i", " ", "m", "u", "n", "d", "u", " ", "c", "h", "o", "l", "i", " ", "p", "a", "l", "l", "u", " ", "k", "h", "a", "d", "i", " ", "l", "i", "n", "e", "n", " ", "p", "o", "l", "k", "i", " ", "t", "h", "e", "w", "a">>

\* "fabindia biba biba"
Txt_brands == <<"f", "a", "b", "i", "n", "d", "i", "a", " ", "b", "i", "b", "a", " ", "b", "i", "b", "a">>

\* "***a***"
Txt_nested == <<"*", "*", "*", "a", "*", "*", "*">>

\* " a\t\n_b. "
Txt_spaces == <<" ", "a", "\t", "\n", "_", "b", ".", " ">>

\* "http://"
Fr_http == <<"h", "t", "t", "p", ":", "/", "/">>

\* "https://"
Fr_https == <<"h", "t", "t", "p", "s", ":", "/", "/">>

\* "a1"
Fr_a1 == <<"a", "1">>

\* "_"
Fr_underscore == <<"_">>

\* " "
Fr_space == <<" ">>

\* "*"
Fr_star == <<"*">>

\* "**"
Fr_2star == <<"*", "*">>

\* "[a]"
Fr_bracket == <<"[", "a", "]">>

\* "(b)"
Fr_paren == <<"(", "b", ")">>

\* "kurta"
Fr_kurta == <<"k", "u", "r", "t", "a">>

\* "in"
Fr_in == <<"i", "n">>

\* "Saree"
Fr_Saree == <<"S", "a", "r", "e", "e">>

\* "look"
Fr_look == <<"l", "o", "o", "k">>

\* "indian"
Fr_indian == <<"i", "n", "d", "i", "a", "n">>

\* "punjab"
Fr_punjab == <<"p", "u", "n", "j", "a", "b">>

\* "kerala"
Fr_kerala == <<"k", "e", "r", "a", "l", "a">>

\* "assam"
Fr_assam == <<"a", "s", "s", "a", "m">>

\* "https://vogue.in/x"
Txt_link_vogue == <<"h", "t", "t", "p", "s", ":", "/", "/", "v", "o", "g", "u", "e", ".", "i", "n", "/", "x">>

\* "http://myntra.com"
Txt_link_myntra == <<"h", "t", "t", "p", ":", "/", "/", "m", "y", "n", "t", "r", "a", ".", "c", "o", "m">>

\* "vogue.in/x"
Txt_link_bare == <<"v", "o", "g", "u", "e", ".", "i", "n", "/", "x">>

CleanFrags ==
  {Fr_http, Fr_https, Fr_a1, Fr_underscore, Fr_space, Fr_star, Fr_2star, Fr_bracket, Fr_paren}

TagFrags ==
  {Fr_kurta, Fr_Saree, Fr_punjab, Fr_kerala, Fr_assam, Fr_space}
(***************************************************************************)
(* Python sets and lists                                                   *)
(***************************************************************************)
RECURSIVE Flatten(_, _)
Flatten(names, table) ==
  IF names = <<>> THEN <<>> ELSE table[Head(names)] \o Flatten(Tail(names), table)

Reverse(s) == [i \in 1..Len(s) |-> s[Len(s) + 1 - i]]

\* every taxonomy term, in declaration order
AllKeywords == Flatten(FacetNames, INDIAN_FASHION_KEYWORDS)

\* The iteration order of a set of str follows the string hashes, which are
\* salted per process: one process may see the terms in declaration order,
\* another in the opposite order.
SetOrders == {"declared", "reversed"}

\* list(S), or iterating over S, for a set S of taxonomy terms
ListOfSet(S) ==
  SelectSeq(IF set_order = "declared" THEN AllKeywords ELSE Reverse(AllKeywords),
            LAMBDA k : k \in S)

\* list(S) for a set S of names of the list universe
ListOfNames(universe, S) ==
  SelectSeq(IF set_order = "declared" THEN universe ELSE Reverse(universe),
            LAMBDA k : k \in S)

\* domains of result links
SourceNames == <<"vogue.in", "myntra.com">>

\* "vogue.in"
Txt_vogue_in == <<"v", "o", "g", "u", "e", ".", "i", "n">>
\* "myntra.com"
Txt_myntra_com == <<"m", "y", "n", "t", "r", "a", ".", "c", "o", "m">>

\* the characters of the domains
SourceSpell == ("vogue.in" :> Txt_vogue_in) @@ ("myntra.com" :> Txt_myntra_com)

(***************************************************************************)
(* FashionDataPreprocessor: relevance, keywords, region                    *)
(***************************************************************************)
\* FashionDataPreprocessor._get_fashion_keywords
fashion_keywords == ToSet(AllKeywords)

\* for word in words: if word in text: return True
RECURSIVE AnyIn(_, _)
AnyIn(words, text) ==
  IF words = <<>> THEN FALSE
  ELSE IF IsSubstring(Spell[Head(words)], text) THEN TRUE
  ELSE AnyIn(Tail(words), text)

\* for word in words: if word in text: keywords.append(word)
RECURSIVE AppendMatches(_, _)
AppendMatches(words, text) ==
  IF words = <<>> THEN <<>>
  ELSE (IF IsSubstring(Spell[Head(words)], text) THEN <<Head(words)>> ELSE <<>>)
       \o AppendMatches(Tail(words), text)

fashion_terms == <<"fashion", "style", "outfit", "clothing", "dress", "wear", "look">>

\* w occurs in t as a whole word
IsWord(w, t) ==
  \E i \in 1..(Len(t) - Len(w) + 1) :
    /\ HasAt(t, i, w)
    /\ i = 1 \/ t[i - 1] \notin WordChars
    /\ i + Len(w) > Len(t) \/ t[i + Len(w)] \notin WordChars

\* relevance by whole words instead of substrings
is_fashion_relevant_by_word(title, content) ==
  LET text == Lower(Join(title, content))
  IN \E k \in fashion_keywords \cup ToSet(fashion_terms) : IsWord(Spell[k], text)

is_fashion_relevant(title, content) ==
  LET text == Lower(Join(title, content))
  IN IF AnyIn(ListOfSet(fashion_keywords), text) THEN TRUE
     ELSE AnyIn(fashion_terms, text)

extract_fashion_keywords(text) ==
  IF Len(text) = 0 THEN <<>>
  ELSE AppendMatches(ListOfSet(fashion_keywords), Lower(text))

\* for state in states: if state in text_lower: return region
RECURSIVE DetectIn(_, _)
DetectIn(regions, text_lower) ==
  IF regions = <<>> THEN "Unknown"
  ELSE IF AnyIn(INDIAN_REGIONS[Head(regions)], text_lower) THEN Head(regions)
  ELSE DetectIn(Tail(regions), text_lower)

\* the regions taken in the opposite order
detect_region_last_declared(text) ==
  IF Len(text) = 0 THEN "Unknown" ELSE DetectIn(Reverse(RegionNames), Lower(text))

detect_region(text) ==
  IF Len(text) = 0 THEN "Unknown" ELSE DetectIn(RegionNames, Lower(text))

(***************************************************************************)
(* RealtimeFashionScraper: keywords, relevance                             *)
(***************************************************************************)
scraper_extract_fashion_keywords(text) ==
  IF Len(text) = 0 THEN <<>>
  ELSE ListOfSet(ToSet(AppendMatches(AllKeywords, Lower(text))))

fashion_subreddits == <<"fashion", "style", "outfits", "streetwear", "indian">>

scraper_is_fashion_relevant(title, content) ==
  LET text == Lower(Join(title, content))
  IN IF Len(scraper_extract_fashion_keywords(text)) > 0 THEN TRUE
     ELSE AnyIn(fashion_subreddits, text)

(***************************************************************************)
(* WebSearchAnalyzer: keywords, comparison                                 *)
(***************************************************************************)
\* A search response is a record; None and {} are the record with no field.
NoData == <<>>

\* for result in search_data['organic']: ... keywords.append(word)
RECURSIVE OrganicMatches(_)
OrganicMatches(organic) ==
  IF organic = <<>> THEN <<>>
  ELSE LET result == Head(organic)
           text == Join(Lower(Get(result, "title", <<>>)),
                        Lower(Get(result, "snippet", <<>>)))
       IN AppendMatches(AllKeywords, text) \o OrganicMatches(Tail(organic))

\* the matches returned as collected, without list(set(...))
extract_trending_keywords_raw(search_data) ==
  IF "organic" \notin DOMAIN search_data THEN <<>>
  ELSE OrganicMatches(search_data.organic)

extract_trending_keywords(search_data) ==
  IF "organic" \notin DOMAIN search_data THEN <<>>
  ELSE ListOfSet(ToSet(OrganicMatches(search_data.organic)))

\* for query, data in self.search_results.items(): web_keywords.extend(data['keywords'])
RECURSIVE ExtendKeywords(_)
ExtendKeywords(results) ==
  IF results = <<>> THEN <<>>
  ELSE Head(results).keywords \o ExtendKeywords(Tail(results))

\* web_only computed without removing the Reddit keywords
compare_reddit_web_trends_web_all(self_search_results, reddit_keywords) ==
  LET web_keywords == ListOfSet(ToSet(ExtendKeywords(self_search_results)))
      common_keywords == ToSet(reddit_keywords) \cap ToSet(web_keywords)
      reddit_only == ToSet(reddit_keywords) \ ToSet(web_keywords)
      web_only == ToSet(web_keywords)
  IN [common_keywords |-> ListOfSet(common_keywords),
      reddit_only |-> ListOfSet(reddit_only),
      web_only |-> ListOfSet(web_only),
      reddit_count |-> Len(reddit_keywords),
      web_count |-> Len(web_keywords),
      common_count |-> Cardinality(common_keywords)]

compare_reddit_web_trends(self_search_results, reddit_keywords) ==
  LET web_keywords == ListOfSet(ToSet(ExtendKeywords(self_search_results)))
      common_keywords == ToSet(reddit_keywords) \cap ToSet(web_keywords)
      reddit_only == ToSet(reddit_keywords) \ ToSet(web_keywords)
      web_only == ToSet(web_keywords) \ ToSet(reddit_keywords)
  IN [common_keywords |-> ListOfSet(common_keywords),
      reddit_only |-> ListOfSet(reddit_only),
      web_only |-> ListOfSet(web_only),
      reddit_count |-> Len(reddit_keywords),
      web_count |-> Len(web_keywords),
      common_count |-> Cardinality(common_keywords)]

(***************************************************************************)
(* WebSearchAnalyzer.analyze_search_trends                                 *)
(***************************************************************************)
\* search_data.get('organic', [])
Organic(search_data) == Get(search_data, "organic", <<>>)

\* the exception of Config.INDIAN_FASHION_KEYWORDS[facet], "none" when the
\* facet is a key of the taxonomy
FacetRaises(facet) ==
  IF facet \in DOMAIN INDIAN_FASHION_KEYWORDS THEN "none" ELSE "KeyError"

\* the terms of a facet that is a key of the taxonomy
Facet(facet) ==
  IF facet \in DOMAIN INDIAN_FASHION_KEYWORDS THEN INDIAN_FASHION_KEYWORDS[facet] ELSE <<>>

\* the exception analyze_search_trends ends with, "none" when it returns: the
\* body of the loop over the results looks up the brand, fabric and occasion
\* facets in this order, for the first result already
analyze_search_trends_raises(search_data) ==
  IF search_data = NoData \/ Organic(search_data) = <<>> THEN "none"
  ELSE IF FacetRaises("indian_brands") # "none" THEN FacetRaises("indian_brands")
  ELSE IF FacetRaises("fabrics_materials") # "none" THEN FacetRaises("fabrics_materials")
  ELSE FacetRaises("occasions")

\* if word in title or word in snippet, for a result
MentionedIn(word, result) ==
  \/ IsSubstring(Spell[word], Lower(Get(result, "title", <<>>)))
  \/ IsSubstring(Spell[word], Lower(Get(result, "snippet", <<>>)))

\* the words of the list mentioned by some result
Mentions(words, organic) ==
  {w \in ToSet(words) : \E i \in 1..Len(organic) : MentionedIn(w, organic[i])}

\* link.split('/')[2]: the text between the second and the third '/'; None
\* when the link has fewer than two '/' (the IndexError is passed over)
Domain(link) ==
  LET s1 == FirstIn(link, 1, {"/"})
      s2 == FirstIn(link, s1 + 1, {"/"})
      s3 == FirstIn(link, s2 + 1, {"/"})
  IN IF s2 > Len(link) THEN None ELSE SubSeq(link, s2 + 1, s3 - 1)

\* the domains appended to popular_sources, by name
Sources(organic) ==
  {n \in ToSet(SourceNames) :
     \E i \in 1..Len(organic) :
       /\ Get(organic[i], "link", <<>>) # <<>>
       /\ Domain(Get(organic[i], "link", <<>>)) = SourceSpell[n]}

\* what analyze_search_trends returns when it raises nothing
analyze_search_trends(search_data) ==
  IF search_data = NoData THEN <<>>
  ELSE LET organic == Organic(search_data)
       IN [total_results |-> Len(organic),
           trending_topics |-> <<>>,
           popular_sources |-> ListOfNames(SourceNames, Sources(organic)),
           regional_mentions |->
             ListOfNames(RegionNames,
                         {r \in ToSet(RegionNames) : Mentions(INDIAN_REGIONS[r], organic) # {}}),
           brand_mentions |-> ListOfSet(Mentions(Facet("indian_brands"), organic)),
           fabric_mentions |-> ListOfSet(Mentions(Facet("fabrics_materials"), organic)),
           occasion_mentions |-> ListOfSet(Mentions(Facet("occasions"), organic))]

(***************************************************************************)
(* WebSearchAnalyzer.get_trending_summary                                  *)
(***************************************************************************)
\* A dict of counts is the sequence of its items [key, count] in insertion
\* order; {} is <<>>.

\* table[key] = 1 whether or not the key is present
Increment_overwrite(table, key) ==
  IF \E i \in 1..Len(table) : table[i].key = key
  THEN table
  ELSE Append(table, [key |-> key, count |-> 1])

\* table[key] = table.get(key, 0) + 1
Increment(table, key) ==
  IF \E i \in 1..Len(table) : table[i].key = key
  THEN [i \in 1..Len(table) |->
          IF table[i].key = key THEN [table[i] EXCEPT !.count = @ + 1] ELSE table[i]]
  ELSE Append(table, [key |-> key, count |-> 1])

\* for key in keys: table[key] = table.get(key, 0) + 1
RECURSIVE CountAll(_, _)
CountAll(table, keys) ==
  IF keys = <<>> THEN table ELSE CountAll(Increment(table, Head(keys)), Tail(keys))

\* for query, data in self.search_results.items(): count the keys of each list
RECURSIVE Aggregate(_, _)
Aggregate(table, lists) ==
  IF lists = <<>> THEN table ELSE Aggregate(CountAll(table, Head(lists)), Tail(lists))

\* data['keywords'], or data['analysis'][field], of each stored entry
FacetLists(results, field) ==
  [i \in 1..Len(results) |->
     IF field = "keywords" THEN results[i].keywords ELSE results[i].analysis[field]]

MaxCount(table) ==
  IF table = <<>> THEN 0
  ELSE CHOOSE c \in {table[i].count : i \in 1..Len(table)} :
         \A i \in 1..Len(table) : table[i].count <= c

\* the items with count c, then those with smaller counts, each group in the
\* order of the table
RECURSIVE SortFrom(_, _)
SortFrom(table, c) ==
  IF c < 1 THEN <<>>
  ELSE SelectSeq(table, LAMBDA e : e.count = c) \o SortFrom(table, c - 1)

\* dict(sorted(table.items(), key=lambda x: x[1], reverse=True)): the sort is
\* stable, and with reverse=True items of equal count keep their order
SortedByCount(table) == SortFrom(table, MaxCount(table))

get_trending_summary(self_search_results) ==
  IF self_search_results = <<>> THEN <<>>
  ELSE [top_keywords |->
          SortedByCount(Aggregate(<<>>, FacetLists(self_search_results, "keywords"))),
        top_brands |->
          SortedByCount(Aggregate(<<>>, FacetLists(self_search_results, "brand_mentions"))),
        top_regions |->
          SortedByCount(Aggregate(<<>>, FacetLists(self_search_results, "regional_mentions"))),
        top_fabrics |->
          SortedByCount(Aggregate(<<>>, FacetLists(self_search_results, "fabric_mentions"))),
        top_occasions |->
          SortedByCount(Aggregate(<<>>, FacetLists(self_search_results, "occasion_mentions"))),
        popular_sources |->
          SortedByCount(Aggregate(<<>>, FacetLists(self_search_results, "popular_sources"))),
        trending_topics |-> <<>>]

(***************************************************************************)
(* FashionDataPreprocessor.preprocess_data                                 *)
(***************************************************************************)
\* raw_data is the corpus file: a sequence of entries in the key order of the
\* JSON object, each [name, posts]; the entry named scrape_info is the envelope.

\* the cleaned post with the region detected from the title alone
CleanedPost_region_from_title(subreddit_name, post) ==
  LET clean_title == clean_text(Get(post, "title", <<>>))
      clean_content == clean_text(Get(post, "body", <<>>))
  IN IF is_fashion_relevant(clean_title, clean_content)
     THEN LET keywords == extract_fashion_keywords(Join(clean_title, clean_content))
              region == detect_region(clean_title)
          IN << [title |-> clean_title,
                 content |-> clean_content,
                 subreddit |-> subreddit_name,
                 keywords |-> keywords,
                 region |-> region,
                 text_length |-> Len(Join(clean_title, clean_content)),
                 keyword_count |-> Len(keywords)] >>
     ELSE <<>>

\* the body of "for post in posts": the cleaned post made from one raw post,
\* <<>> when the post is not relevant
CleanedPost(subreddit_name, post) ==
  LET clean_title == clean_text(Get(post, "title", <<>>))
      clean_content == clean_text(Get(post, "body", <<>>))
  IN IF is_fashion_relevant(clean_title, clean_content)
     THEN LET keywords == extract_fashion_keywords(Join(clean_title, clean_content))
              region == detect_region(Join(clean_title, clean_content))
          IN << [title |-> clean_title,
                 content |-> clean_content,
                 subreddit |-> subreddit_name,
                 keywords |-> keywords,
                 region |-> region,
                 text_length |-> Len(Join(clean_title, clean_content)),
                 keyword_count |-> Len(keywords)] >>
     ELSE <<>>

\* the loop body raising MalformedDocumentError for a post without text
PostException_strict(post) ==
  IF ~ IsMapping(post) THEN "AttributeError"
  ELSE IF clean_text_raises(Get(post, "title", <<>>)) # "none"
  THEN clean_text_raises(Get(post, "title", <<>>))
  ELSE IF clean_text_raises(Get(post, "body", <<>>)) # "none"
  THEN clean_text_raises(Get(post, "body", <<>>))
  ELSE IF clean_text(Get(post, "title", <<>>)) = <<>> /\ clean_text(Get(post, "body", <<>>)) = <<>>
  THEN "MalformedDocumentError"
  ELSE "none"

\* the exception the loop body raises on one post, "none" when it completes:
\* post.get needs a mapping, clean_text a str or a falsy value
PostException(post) ==
  IF ~ IsMapping(post) THEN "AttributeError"
  ELSE IF clean_text_raises(Get(post, "title", <<>>)) # "none"
  THEN clean_text_raises(Get(post, "title", <<>>))
  ELSE clean_text_raises(Get(post, "body", <<>>))

\* the exception "for post in posts" ends with: that of the first post that raises
RECURSIVE PostsException(_)
PostsException(posts) ==
  IF posts = <<>> THEN "none"
  ELSE IF PostException(Head(posts)) # "none" THEN PostException(Head(posts))
  ELSE PostsException(Tail(posts))

\* the exception preprocess_data ends with; no statement of it catches one
RECURSIVE SubredditsException(_)
SubredditsException(entries) ==
  IF entries = <<>> THEN "none"
  ELSE IF Head(entries).name # "scrape_info" /\ PostsException(Head(entries).posts) # "none"
  THEN PostsException(Head(entries).posts)
  ELSE SubredditsException(Tail(entries))

\* the concatenation of a sequence of sequences
RECURSIVE Concat(_)
Concat(ss) == IF ss = <<>> THEN <<>> ELSE Head(ss) \o Concat(Tail(ss))

\* the loop over the posts of a source taking them last to first
CleanPosts_reversed(subreddit_name, posts) ==
  Concat([i \in 1..Len(posts) |-> CleanedPost(subreddit_name, posts[Len(posts) + 1 - i])])

\* for post in posts: ...
RECURSIVE CleanPosts(_, _)
CleanPosts(subreddit_name, posts) ==
  IF posts = <<>> THEN <<>>
  ELSE CleanedPost(subreddit_name, Head(posts))
       \o CleanPosts(subreddit_name, Tail(posts))

\* for subreddit_name, posts in self.raw_data.items(): ...
RECURSIVE CleanSubreddits(_)
CleanSubreddits(entries) ==
  IF entries = <<>> THEN <<>>
  ELSE (IF Head(entries).name = "scrape_info" THEN <<>>
        ELSE CleanPosts(Head(entries).name, Head(entries).posts))
       \o CleanSubreddits(Tail(entries))

(***************************************************************************)
(* Aggregations over cleaned_data                                          *)
(***************************************************************************)
\* None where a mapping is returned
NoResult == [py |-> "NoneType"]

\* for post in self.cleaned_data: all_keywords.extend(post['keywords'])
RECURSIVE all_keywords(_)
all_keywords(posts) ==
  IF posts = <<>> THEN <<>> ELSE Head(posts).keywords \o all_keywords(Tail(posts))

\* pd.Series(all_keywords).value_counts(), as a function from keyword to count
value_counts(keywords) ==
  [k \in ToSet(keywords) |-> Cardinality({i \in 1..Len(keywords) : keywords[i] = k})]

\* the sets of d elements of T
RECURSIVE DropSets(_, _)
DropSets(T, d) ==
  IF d = 0 THEN {{}}
  ELSE UNION {{D \cup {x} : D \in DropSets(T \ {x}, d - 1)} : x \in T}

\* value_counts().head(n).to_dict(): the n keys of largest count; which keys of
\* equal count come first is left to the sort of value_counts, so every
\* choice among them is a possible result
Heads(counts, n) ==
  LET keys == DOMAIN counts
      d == IF Cardinality(keys) > n THEN Cardinality(keys) - n ELSE 0
  IN {[k \in keys \ D |-> counts[k]] :
        D \in {E \in DropSets(keys, d) :
                 \A x \in E, y \in keys \ E : counts[x] <= counts[y]}}

\* FashionDataPreprocessor._get_top_keywords: head(20)
TopKeywordsKept == 20

\* LLMFashionAnalyzer.analyze_trending_keywords: head(15)
TopRedditKeywordsKept == 15

\* the possible results of _get_top_keywords
get_top_keywords(posts) == Heads(value_counts(all_keywords(posts)), TopKeywordsKept)

\* ' '.join([post['title'] + ' ' + post['content'] for post in self.cleaned_data])
RECURSIVE all_text(_)
all_text(posts) ==
  IF posts = <<>> THEN <<>>
  ELSE IF Len(posts) = 1 THEN Join(Head(posts).title, Head(posts).content)
  ELSE Join(Join(Head(posts).title, Head(posts).content), all_text(Tail(posts)))

\* the first position at or after i where w occurs in t, 0 if none
NextMatch(w, t, i) ==
  LET P == {p \in i..(Len(t) - Len(w) + 1) : HasAt(t, p, w)}
  IN IF P = {} THEN 0 ELSE CHOOSE p \in P : \A q \in P : p <= q

\* a count of presence: 1 if w occurs in t[i..] at all
CountFrom_presence(w, t, i) == IF NextMatch(w, t, i) = 0 THEN 0 ELSE 1

\* str.count: the number of non-overlapping occurrences of w in t[i..]
RECURSIVE CountFrom(_, _, _)
CountFrom(w, t, i) ==
  LET p == NextMatch(w, t, i)
  IN IF p = 0 THEN 0 ELSE 1 + CountFrom(w, t, p + Len(w))

\* the brand table with an entry for every brand, zero counts included
BrandCounts_with_zeros(brands, text) ==
  [i \in 1..Len(brands) |->
     [key |-> brands[i], count |-> CountFrom(Spell[brands[i]], text, 1)]]

\* for brand in Config.INDIAN_FASHION_KEYWORDS['indian_brands']:
\*   count = all_text.lower().count(brand.lower()); if count > 0: reddit_brands[brand] = count
RECURSIVE BrandCounts(_, _)
BrandCounts(brands, text) ==
  IF brands = <<>> THEN <<>>
  ELSE LET count == CountFrom(Spell[Head(brands)], text, 1)
       IN (IF count > 0 THEN <<[key |-> Head(brands), count |-> count]>> ELSE <<>>)
          \o BrandCounts(Tail(brands), text)

\* LLMFashionAnalyzer.analyze_brand_trends with no web trends loaded; reply is
\* what call_ollama returned
analyze_brand_trends(self_cleaned_data, reply) ==
  IF self_cleaned_data = <<>> THEN NoResult
  ELSE [analysis |-> reply,
        reddit_brands |-> BrandCounts(INDIAN_FASHION_KEYWORDS["indian_brands"],
                                      Lower(all_text(self_cleaned_data))),
        web_brands |-> <<>>]

\* the possible results of LLMFashionAnalyzer.analyze_trending_keywords with no
\* web trends loaded
analyze_trending_keywords(self_cleaned_data, reply) ==
  IF self_cleaned_data = <<>> THEN {NoResult}
  ELSE {[analysis |-> reply, reddit_keywords |-> top,
         web_keywords |-> <<>>, web_brands |-> <<>>, web_regions |-> <<>>] :
          top \in Heads(value_counts(all_keywords(self_cleaned_data)), TopRedditKeywordsKept)}

\* df['subreddit'].value_counts().head(10)
TopSubredditsKept == 10

\* the possible results of FashionDataPreprocessor.get_statistics; the score
\* statistics are left out, the posts of the model carry no score
get_statistics(self_cleaned_data) ==
  IF self_cleaned_data = <<>> THEN {<<>>}
  ELSE LET subreddits == [i \in 1..Len(self_cleaned_data) |-> self_cleaned_data[i].subreddit]
           regions == [i \in 1..Len(self_cleaned_data) |-> self_cleaned_data[i].region]
       IN {[total_posts |-> Len(self_cleaned_data),
            subreddits |-> Cardinality(ToSet(subreddits)),
            regions |-> value_counts(regions),
            keyword_distribution |-> <<>>,
            top_keywords |-> top,
            top_subreddits |-> subs] :
             top \in get_top_keywords(self_cleaned_data),
             subs \in Heads(value_counts(subreddits), TopSubredditsKept)}

\* LLMFashionAnalyzer.analyze_regional_trends with no web trends loaded
analyze_regional_trends(self_cleaned_data, reply) ==
  IF self_cleaned_data = <<>> THEN NoResult
  ELSE [analysis |-> reply,
        reddit_regions |->
          value_counts([i \in 1..Len(self_cleaned_data) |-> self_cleaned_data[i].region]),
        web_regions |-> <<>>]

\* the possible results of LLMFashionAnalyzer.generate_comprehensive_report:
\* the three analyses are run on self.cleaned_data, then the report text is
\* asked for; replies are what the calls of call_ollama returned.  The
\* timestamp is left out.
generate_comprehensive_report(self_cleaned_data, replies) ==
  {[keyword_analysis |-> keyword_analysis,
    regional_analysis |-> analyze_regional_trends(self_cleaned_data, replies[2]),
    brand_analysis |-> analyze_brand_trends(self_cleaned_data, replies[3]),
    comprehensive_report |-> replies[4]] :
     keyword_analysis \in analyze_trending_keywords(self_cleaned_data, replies[1])}

(***************************************************************************)
(* Bounds and inputs                                                       *)
(***************************************************************************)
MaxCleanFrags == 3
MaxTagFrags == 2
MaxResults == 2
MaxPosts == 2
MaxQueries == 2
MaxRedditLen == 2
MaxHot == 2
MaxItems == 3

\* sequences of at most n elements of S
SeqsUpTo(S, n) == UNION {[1..m -> S] : m \in 0..n}

CleanTexts ==
  {Concat(fs) : fs \in SeqsUpTo(CleanFrags, MaxCleanFrags)}
  \cup {Txt_nested, Txt_spaces, Txt_saree_look, Txt_assam_link, Txt_url_saree,
        Txt_url_fragment}

TagTitles == {Concat(fs) : fs \in SeqsUpTo(TagFrags, MaxTagFrags)} \cup {Txt_kurtain}

TagContents == {<<>>, Fr_punjab, Fr_indian, Fr_look}

ResultSet ==
  [title : {<<>>, Fr_Saree, Fr_kurta \o Fr_in, Fr_look}, snippet : {<<>>, Fr_Saree \o Fr_space \o Fr_kurta}]

\* responses whose results have links
LinkedData ==
  { [organic |-> <<[title |-> Fr_Saree, snippet |-> Fr_punjab, link |-> Txt_link_vogue],
                   [title |-> Fr_kurta, snippet |-> <<>>, link |-> Txt_link_myntra]>>],
    [organic |-> <<[title |-> Fr_look, link |-> Txt_link_bare]>>] }

SearchData ==
  {NoData, [searchParameters |-> <<>>]}
  \cup {[organic |-> rs] : rs \in SeqsUpTo(ResultSet, MaxResults)}
  \cup LinkedData

PostSet ==
  { [title |-> Txt_saree_look, body |-> Txt_assam_link],
    [title |-> Txt_new_look, body |-> <<>>],
    [title |-> Txt_hello, body |-> Txt_url_saree] }

FASHION_SUBREDDITS ==
  <<"IndianFashionAddicts", "IndianFashion", "DesiFashion", "IndianBeautyGossip",
    "TwoXIndia", "IndianSkincareAddicts", "IndianMakeupAddicts", "streetwear",
    "fashion", "femalefashionadvice">>

\* the envelope: its value is a mapping, and iterating over it as over a list
\* of posts would give its keys, which are str
ScrapeInfoEntry ==
  [name |-> "scrape_info", posts |-> <<NotMapping, NotMapping, NotMapping, NotMapping>>]

\* the subreddits of the corpus files
CorpusSubreddits == <<FASHION_SUBREDDITS[1], FASHION_SUBREDDITS[2]>>

\* corpus files: the envelope, then some of the subreddits in order
RECURSIVE CorpusTails(_)
CorpusTails(i) ==
  IF i > Len(CorpusSubreddits) THEN {<<>>}
  ELSE LET rest == CorpusTails(i + 1)
       IN rest \cup
          {<<[name |-> CorpusSubreddits[i], posts |-> ps]>> \o r :
             ps \in SeqsUpTo(PostSet, MaxPosts), r \in rest}

\* posts with a missing or null field, without text, or malformed
IrregularPosts ==
  { [title |-> Fr_Saree],
    [title |-> None, body |-> Fr_kurta],
    [id |-> Fr_a1],
    [title |-> <<>>, body |-> None],
    [title |-> NotText, body |-> <<>>],
    NotMapping }

\* corpus files of one subreddit holding such posts
IrregularCorpora ==
  {<<ScrapeInfoEntry, [name |-> FASHION_SUBREDDITS[3], posts |-> ps]>> :
     ps \in SeqsUpTo(IrregularPosts, MaxPosts)}

RawDataSets == {<<ScrapeInfoEntry>> \o r : r \in CorpusTails(1)} \cup IrregularCorpora

KeywordUniverse == {"saree", "lehenga", "kurta"}

\* Config.SEARCH_QUERIES (not part of config.py as given)
SEARCH_QUERIES ==
  <<"Indian fashion trends 2024", "traditional Indian wear trends", "Indian wedding fashion">>

\* stored results: an entry for some of the first MaxQueries queries, in order,
\* each with the keyword list extract_trending_keywords returned for it
RECURSIVE StoredTails(_)
StoredTails(i) ==
  IF i > MaxQueries \/ i > Len(SEARCH_QUERIES) THEN {<<>>}
  ELSE LET rest == StoredTails(i + 1)
       IN rest \cup
          {<<[query |-> SEARCH_QUERIES[i], keywords |-> ListOfSet(S)]>> \o r :
             S \in SUBSET KeywordUniverse, r \in rest}

RedditLists == SeqsUpTo(KeywordUniverse, MaxRedditLen)

\* what one search mentions: keywords, brands, regions and sources
MentionSets ==
  { [keywords |-> {"saree", "kurta"}, brands |-> {"fabindia"},
     regions |-> {"North_India"}, sources |-> {"vogue.in"}],
    [keywords |-> {"kurta"}, brands |-> {"biba", "fabindia"},
     regions |-> {}, sources |-> {}],
    [keywords |-> {"saree", "lehenga"}, brands |-> {},
     regions |-> {"South_India", "North_India"}, sources |-> {"vogue.in", "myntra.com"}],
    [keywords |-> {}, brands |-> {}, regions |-> {}, sources |-> {}],
    [keywords |-> {"kurta", "saree", "lehenga"}, brands |-> {"biba"},
     regions |-> {"South_India"}, sources |-> {"myntra.com"}] }

\* the entry gather_comprehensive_trends stores for a query: the keyword list
\* of extract_trending_keywords and the deduplicated lists of
\* analyze_search_trends; config.py has no fabric or occasion facet
StoredEntry(query, m) ==
  [query |-> query,
   keywords |-> ListOfSet(m.keywords),
   analysis |-> [trending_topics |-> <<>>,
                 popular_sources |-> ListOfNames(SourceNames, m.sources),
                 regional_mentions |-> ListOfNames(RegionNames, m.regions),
                 brand_mentions |-> ListOfSet(m.brands),
                 fabric_mentions |-> <<>>,
                 occasion_mentions |-> <<>>]]

\* stored results with the analysis of each search
RECURSIVE AnalysedTails(_)
AnalysedTails(i) ==
  IF i > MaxQueries \/ i > Len(SEARCH_QUERIES) THEN {<<>>}
  ELSE LET rest == AnalysedTails(i + 1)
       IN rest \cup
          {<<StoredEntry(SEARCH_QUERIES[i], m)>> \o r : m \in MentionSets, r \in rest}

\* raw posts of the files aggregated over
AnalysedPosts ==
  { [title |-> Txt_many_terms, body |-> Txt_more_terms],
    [title |-> Txt_brands, body |-> Txt_saree_look],
    [title |-> Txt_new_look, body |-> <<>>] }

\* the cleaned posts preprocess_data makes of them
CleanedFiles ==
  {CleanPosts(FASHION_SUBREDDITS[1], ps) : ps \in SeqsUpTo(AnalysedPosts, MaxPosts)}

\* what call_ollama returns: the reply text, or None
Replies == {None, Txt_hello}

\* what the calls of call_ollama of one report return, in order: every call
\* fails, every call answers, or the analyses fail and the report is written
ReplySeqs ==
  { <<None, None, None, None>>,
    <<Txt_hello, Txt_hello, Txt_hello, Txt_hello>>,
    <<None, None, None, Txt_hello>> }

\* corpus files and Reddit keyword lists of the runs with repeated calls
FrameCorpora ==
  { <<ScrapeInfoEntry>>,
    <<ScrapeInfoEntry,
      [name |-> FASHION_SUBREDDITS[1],
       posts |-> <<[title |-> Txt_saree_look, body |-> Txt_assam_link],
                   [title |-> Txt_new_look, body |-> <<>>]>>],
      [name |-> FASHION_SUBREDDITS[2],
       posts |-> <<[title |-> None, body |-> Fr_kurta]>>]>>,
    <<ScrapeInfoEntry,
      [name |-> FASHION_SUBREDDITS[3], posts |-> <<[title |-> Fr_Saree], [id |-> Fr_a1]>>]>> }

FrameRedditLists == {<<>>, <<"saree", "saree">>, <<"kurta", "lehenga">>}

(***************************************************************************)
(* WebSearchAnalyzer.gather_comprehensive_trends                           *)
(***************************************************************************)
\* the configured queries gone through
Queries ==
  SubSeq(SEARCH_QUERIES, 1,
         IF MaxQueries < Len(SEARCH_QUERIES) THEN MaxQueries ELSE Len(SEARCH_QUERIES))

\* what search_web_trends returns: None (NoData) when the request fails or
\* the status is not 200, else the JSON document of the response
GatherData ==
  {NoData, [searchParameters |-> <<>>], [organic |-> <<>>]}
  \cup LinkedData
  \cup {[organic |-> <<r>>] : r \in ResultSet}

\* all_trends[query] without the raw results and the time
GatheredEntry(query, search_data) ==
  [query |-> query,
   keywords |-> extract_trending_keywords(search_data),
   analysis |-> analyze_search_trends(search_data)]

\* the loop over the queries from the i-th on, responses[i] being what the
\* search of the i-th query returns: the searches made, all_trends, and the
\* exception that ended the loop
RECURSIVE GatherFrom(_, _, _)
GatherFrom(i, responses, acc) ==
  IF i > Len(Queries) THEN acc
  ELSE LET search_data == responses[i]
           made == Append(acc.searched, [query |-> Queries[i], response |-> search_data])
       IN IF search_data = NoData
          THEN GatherFrom(i + 1, responses, [acc EXCEPT !.searched = made])
          ELSE IF analyze_search_trends_raises(search_data) # "none"
          THEN [acc EXCEPT !.searched = made,
                           !.exc = analyze_search_trends_raises(search_data)]
          ELSE GatherFrom(i + 1, responses,
                          [acc EXCEPT !.searched = made,
                                      !.all_trends = Append(acc.all_trends,
                                                            GatheredEntry(Queries[i], search_data))])

(***************************************************************************)
(* RealtimeFashionScraper: the corpus                                      *)
(***************************************************************************)
\* fashion_data is the mapping in its key order: the envelope scrape_info
\* (total_items, subreddits_scraped, last_updated) and the list of posts of
\* each subreddit, as entries [name, posts].  A time is kept by its order
\* with respect to the time written in the file: "saved" is the time of the
\* last save that succeeded, "later" a time after it, "none" no last_updated.
FreshData ==
  [total_items |-> 0, subreddits_scraped |-> <<>>, last_updated |-> "none", entries |-> <<>>]

\* no file output/fashion_corpus.json
NoFile == <<>>

\* a file that is not a JSON document: a dump that failed part-way
BrokenFile == [broken |-> TRUE]

\* no scraper is running.  pc is the position of the scraper, sub the index
\* of the subreddit being scraped, hot the number of posts its listing has
\* given, posts_scraped and total_posts the local variables of the two
\* methods, len_at_start and items_at_start the length of the subreddit's list
\* and total_items when the method began, saved the outcome of the last save,
\* outcome that of the last scrape of a subreddit, ret the value returned by
\* scrape_all_fashion_subreddits.
NotScraping ==
  [pc |-> "none", sub |-> 0, hot |-> 0, posts_scraped |-> 0,
   total_posts |-> 0, len_at_start |-> 0, items_at_start |-> 0,
   saved |-> "none", outcome |-> "none", ret |-> 0]

\* if subreddit_name not in self.fashion_data
HasEntry(data, name) == \E i \in 1..Len(data.entries) : data.entries[i].name = name

EntryIndex(data, name) == CHOOSE i \in 1..Len(data.entries) : data.entries[i].name = name

\* self.fashion_data[subreddit_name]
PostsOf(data, name) ==
  IF HasEntry(data, name) THEN data.entries[EntryIndex(data, name)].posts ELSE <<>>

\* if subreddit_name not in self.fashion_data: self.fashion_data[subreddit_name] = []
InitEntry(data, name) ==
  IF HasEntry(data, name) THEN data
  ELSE [data EXCEPT !.entries = Append(@, [name |-> name, posts |-> <<>>])]

\* post_data: title, body and subreddit; the other fields are copies of
\* attributes of the post and its keywords
post_data(post, name) == [title |-> post.title, body |-> post.selftext, subreddit |-> name]

\* the post stored without counting it
AppendPost_uncounted(data, name, post) ==
  [data EXCEPT !.entries[EntryIndex(data, name)].posts = Append(@, post_data(post, name))]

\* self.fashion_data[subreddit_name].append(post_data)
\* self.fashion_data["scrape_info"]["total_items"] += 1
AppendPost(data, name, post) ==
  [data EXCEPT !.entries[EntryIndex(data, name)].posts = Append(@, post_data(post, name)),
               !.total_items = @ + 1]

\* the subreddit recorded again at every scrape
MarkScraped_again(data, name) ==
  [data EXCEPT !.subreddits_scraped = Append(@, name)]

\* if subreddit_name not in ...["subreddits_scraped"]: ...append(subreddit_name)
MarkScraped(data, name) ==
  IF name \in ToSet(data.subreddits_scraped) THEN data
  ELSE [data EXCEPT !.subreddits_scraped = Append(@, name)]

\* the corpus size at which scrape_all_fashion_subreddits stops
TargetCorpusSize == 50000

(***************************************************************************)
(* State machine                                                           *)
(***************************************************************************)
NoCall == [fn |-> "none", args |-> <<>>, ret |-> <<>>, exc |-> "none"]

NoComparison ==
  [common_keywords |-> <<>>, reddit_only |-> <<>>, web_only |-> <<>>,
   reddit_count |-> 0, web_count |-> 0, common_count |-> 0]

\* the state after FashionDataPreprocessor() and WebSearchAnalyzer():
\* raw_data and cleaned_data are None (pc.pre = "constructed"), search_results is {}
Init ==
  /\ set_order \in SetOrders
  /\ pc = [pre |-> "constructed", cmp |-> "idle"]
  /\ call = NoCall
  /\ raw_data = <<>>
  /\ cleaned_data = <<>>
  /\ search_results = <<>>
  /\ reddit_keywords_arg = <<>>
  /\ searched = <<>>
  /\ fashion_data = FreshData
  /\ corpus_file = NoFile
  /\ scrape = NotScraping
  /\ comparison = NoComparison

\* FashionDataPreprocessor.load_raw_data, called as main() does before any
\* preprocessing: the file is read, or the read fails
load_raw_data ==
  \/ \E data \in RawDataSets :
       /\ pc.pre = "constructed"
       /\ raw_data' = data
       /\ pc' = [pc EXCEPT !.pre = "loaded"]
       /\ call' = [fn |-> "load_raw_data", args |-> <<>>, ret |-> TRUE, exc |-> "none"]
       /\ UNCHANGED <<set_order, searched, fashion_data, corpus_file, scrape, cleaned_data, search_results, reddit_keywords_arg, comparison>>
  \/ /\ pc.pre = "constructed"
     /\ call' = [fn |-> "load_raw_data", args |-> <<>>, ret |-> FALSE, exc |-> "none"]
     /\ UNCHANGED <<set_order, searched, fashion_data, corpus_file, scrape, pc, raw_data, cleaned_data, search_results,
                    reddit_keywords_arg, comparison>>

\* preprocess_data taking the posts out of raw_data as it cleans them
preprocess_data_draining ==
  /\ pc.pre # "constructed"
  /\ SubredditsException(raw_data) = "none"
  /\ cleaned_data' = CleanSubreddits(raw_data)
  /\ raw_data' = [i \in 1..Len(raw_data) |-> [raw_data[i] EXCEPT !.posts = <<>>]]
  /\ pc' = [pc EXCEPT !.pre = "preprocessed"]
  /\ call' = [fn |-> "preprocess_data", args |-> <<>>,
              ret |-> Len(cleaned_data'), exc |-> "none"]
  /\ UNCHANGED <<set_order, searched, fashion_data, corpus_file, scrape, search_results, reddit_keywords_arg, comparison>>

\* FashionDataPreprocessor.preprocess_data, called once raw_data is loaded:
\* it assigns cleaned_data and returns its length, or an exception of the
\* loop body leaves it before the assignment
preprocess_data ==
  /\ pc.pre # "constructed"
  /\ IF SubredditsException(raw_data) = "none"
     THEN /\ cleaned_data' = CleanSubreddits(raw_data)
          /\ pc' = [pc EXCEPT !.pre = "preprocessed"]
          /\ call' = [fn |-> "preprocess_data", args |-> <<>>,
                      ret |-> Len(cleaned_data'), exc |-> "none"]
     ELSE /\ call' = [fn |-> "preprocess_data", args |-> <<>>,
                      ret |-> 0, exc |-> SubredditsException(raw_data)]
          /\ UNCHANGED <<pc, cleaned_data>>
  /\ UNCHANGED <<set_order, searched, fashion_data, corpus_file, scrape, raw_data, search_results, reddit_keywords_arg, comparison>>

Next == load_raw_data \/ preprocess_data

Spec == Init /\ [][Next]_vars

(***************************************************************************)
(* The text functions applied to bounded inputs                            *)
(***************************************************************************)
\* one call per run: the function is applied to fresh arguments
Returned(fn, args, ret) ==
  /\ call.fn = "none"
  /\ call' = [fn |-> fn, args |-> args, ret |-> ret, exc |-> "none"]
  /\ UNCHANGED <<set_order, searched, fashion_data, corpus_file, scrape, pc, raw_data, cleaned_data, search_results,
                 reddit_keywords_arg, comparison>>

Call_clean_text ==
  \E text \in CleanTexts \cup {None} : Returned("clean_text", <<text>>, clean_text(text))

Call_is_fashion_relevant ==
  \E title \in TagTitles, content \in TagContents :
    Returned("is_fashion_relevant", <<title, content>>, is_fashion_relevant(title, content))

Call_scraper_is_fashion_relevant ==
  \E title \in TagTitles, content \in TagContents :
    Returned("scraper_is_fashion_relevant", <<title, content>>,
             scraper_is_fashion_relevant(title, content))

Call_extract_fashion_keywords ==
  \E title \in TagTitles, content \in TagContents :
    Returned("extract_fashion_keywords", <<title, content>>,
             extract_fashion_keywords(Join(title, content)))

Call_scraper_extract_fashion_keywords ==
  \E title \in TagTitles, content \in TagContents :
    Returned("scraper_extract_fashion_keywords", <<title, content>>,
             scraper_extract_fashion_keywords(Join(title, content)))

Call_extract_trending_keywords ==
  \E search_data \in SearchData :
    Returned("extract_trending_keywords", <<search_data>>,
             extract_trending_keywords(search_data))

Call_analyze_search_trends ==
  \E search_data \in SearchData :
    /\ call.fn = "none"
    /\ call' = [fn |-> "analyze_search_trends", args |-> <<search_data>>,
                ret |-> IF analyze_search_trends_raises(search_data) = "none"
                        THEN analyze_search_trends(search_data) ELSE <<>>,
                exc |-> analyze_search_trends_raises(search_data)]
    /\ UNCHANGED <<set_order, searched, fashion_data, corpus_file, scrape, pc, raw_data, cleaned_data, search_results,
                   reddit_keywords_arg, comparison>>

Call_detect_region ==
  \E title \in TagTitles, content \in TagContents :
    Returned("detect_region", <<title, content>>, detect_region(Join(title, content)))

NextText ==
  \/ Call_clean_text
  \/ Call_is_fashion_relevant
  \/ Call_scraper_is_fashion_relevant
  \/ Call_extract_fashion_keywords
  \/ Call_scraper_extract_fashion_keywords
  \/ Call_extract_trending_keywords
  \/ Call_analyze_search_trends
  \/ Call_detect_region

SpecText == Init /\ [][NextText]_vars

(***************************************************************************)
(* compare_reddit_web_trends applied to bounded stored results             *)
(***************************************************************************)
InitCompare ==
  /\ set_order \in SetOrders
  /\ pc = [pre |-> "constructed", cmp |-> "idle"]
  /\ call = NoCall
  /\ raw_data = <<>>
  /\ cleaned_data = <<>>
  /\ search_results \in StoredTails(1)
  /\ reddit_keywords_arg = <<>>
  /\ searched = <<>>
  /\ fashion_data = FreshData
  /\ corpus_file = NoFile
  /\ scrape = NotScraping
  /\ comparison = NoComparison

Call_compare_reddit_web_trends ==
  \E keywords \in RedditLists :
    /\ pc.cmp = "idle"
    /\ reddit_keywords_arg' = keywords
    /\ comparison' = compare_reddit_web_trends(search_results, keywords)
    /\ pc' = [pc EXCEPT !.cmp = "returned"]
    /\ UNCHANGED <<set_order, searched, fashion_data, corpus_file, scrape, call, raw_data, cleaned_data, search_results>>

NextCompare == Call_compare_reddit_web_trends

SpecCompare == InitCompare /\ [][NextCompare]_vars

(***************************************************************************)
(* The aggregations applied to bounded stored results and cleaned posts    *)
(***************************************************************************)
\* get_trending_summary reads search_results alone and the aggregations of the
\* posts read cleaned_data alone: a run starts with stored results, or with
\* cleaned posts, or with neither
InitAggregate ==
  /\ set_order \in SetOrders
  /\ pc = [pre |-> "preprocessed", cmp |-> "idle"]
  /\ call = NoCall
  /\ raw_data = <<>>
  /\ \/ search_results \in AnalysedTails(1) /\ cleaned_data = <<>>
     \/ search_results = <<>> /\ cleaned_data \in CleanedFiles
  /\ reddit_keywords_arg = <<>>
  /\ searched = <<>>
  /\ fashion_data = FreshData
  /\ corpus_file = NoFile
  /\ scrape = NotScraping
  /\ comparison = NoComparison

Call_get_trending_summary ==
  Returned("get_trending_summary", <<>>, get_trending_summary(search_results))

Call_get_statistics ==
  \E stats \in get_statistics(cleaned_data) : Returned("get_statistics", <<>>, stats)

Call_analyze_brand_trends ==
  \E reply \in Replies :
    Returned("analyze_brand_trends", <<>>, analyze_brand_trends(cleaned_data, reply))

Call_analyze_trending_keywords ==
  \E reply \in Replies :
    \E result \in analyze_trending_keywords(cleaned_data, reply) :
      Returned("analyze_trending_keywords", <<>>, result)

\* the analyses ask call_ollama only when there are posts
Call_generate_comprehensive_report ==
  /\ call.fn = "none"
  /\ \E replies \in IF cleaned_data = <<>> THEN {r \in ReplySeqs : r[1] = None}
                    ELSE ReplySeqs :
       \E report \in generate_comprehensive_report(cleaned_data, replies) :
         Returned("generate_comprehensive_report", <<>>, report)

NextAggregate ==
  \/ Call_get_trending_summary
  \/ Call_get_statistics
  \/ Call_analyze_brand_trends
  \/ Call_analyze_trending_keywords
  \/ Call_generate_comprehensive_report

SpecAggregate == InitAggregate /\ [][NextAggregate]_vars

(***************************************************************************)
(* The derivation steps called repeatedly on loaded data and stored results *)
(***************************************************************************)
\* raw_data is loaded and the analyzer holds the results of earlier searches
InitFrame ==
  /\ set_order \in SetOrders
  /\ pc = [pre |-> "loaded", cmp |-> "idle"]
  /\ call = NoCall
  /\ raw_data \in FrameCorpora
  /\ cleaned_data = <<>>
  /\ search_results \in AnalysedTails(MaxQueries - 1)
  /\ reddit_keywords_arg = <<>>
  /\ searched = <<>>
  /\ fashion_data = FreshData
  /\ corpus_file = NoFile
  /\ scrape = NotScraping
  /\ comparison = NoComparison

\* WebSearchAnalyzer.get_trending_summary, called at any time
Again_get_trending_summary ==
  /\ call' = [fn |-> "get_trending_summary", args |-> <<>>,
              ret |-> get_trending_summary(search_results), exc |-> "none"]
  /\ UNCHANGED <<set_order, searched, fashion_data, corpus_file, scrape, pc, raw_data, cleaned_data, search_results,
                 reddit_keywords_arg, comparison>>

\* WebSearchAnalyzer.compare_reddit_web_trends, called at any time; the
\* caller's list is reddit_keywords_arg after the call
Again_compare_reddit_web_trends ==
  \E keywords \in FrameRedditLists :
    /\ reddit_keywords_arg' = keywords
    /\ comparison' = compare_reddit_web_trends(search_results, keywords)
    /\ pc' = [pc EXCEPT !.cmp = "returned"]
    /\ UNCHANGED <<set_order, searched, fashion_data, corpus_file, scrape, call, raw_data, cleaned_data, search_results>>

NextFrame ==
  \/ preprocess_data
  \/ Again_get_trending_summary
  \/ Again_compare_reddit_web_trends

SpecFrame == InitFrame /\ [][NextFrame]_vars

(***************************************************************************)
(* RealtimeFashionScraper                                                  *)
(***************************************************************************)
\* the subreddits scraped by a run, and max_posts of each scrape
Subreddits == <<FASHION_SUBREDDITS[1], FASHION_SUBREDDITS[2]>>

max_posts == MaxHot

\* the posts of a hot listing
HotPosts ==
  { [title |-> Fr_Saree, selftext |-> Fr_look],
    [title |-> Fr_look, selftext |-> <<>>] }

\* those for which is_fashion_relevant(post.title, post.selftext) holds
RelevantHot == {post \in HotPosts : scraper_is_fashion_relevant(post.title, post.selftext)}

InitScraper ==
  /\ set_order = "declared"
  /\ pc = [pre |-> "constructed", cmp |-> "idle"]
  /\ call = NoCall
  /\ raw_data = <<>>
  /\ cleaned_data = <<>>
  /\ search_results = <<>>
  /\ reddit_keywords_arg = <<>>
  /\ comparison = NoComparison
  /\ searched = <<>>
  /\ fashion_data = FreshData
  /\ corpus_file = NoFile
  /\ scrape = NotScraping

ScraperFrame ==
  UNCHANGED <<set_order, pc, call, raw_data, cleaned_data, search_results,
              reddit_keywords_arg, comparison, searched>>

\* RealtimeFashionScraper(): a new scraper; load_existing_data reads the file
\* if there is one, and a file that cannot be parsed gives a fresh corpus
load_existing_data ==
  /\ scrape.pc \in {"none", "done"}
  /\ fashion_data' = IF corpus_file \in {NoFile, BrokenFile} THEN FreshData ELSE corpus_file
  /\ scrape' = [NotScraping EXCEPT !.pc = "ready"]
  /\ UNCHANGED corpus_file
  /\ ScraperFrame

\* scrape_all_fashion_subreddits, up to its loop
scrape_all_fashion_subreddits ==
  /\ scrape.pc = "ready"
  /\ scrape' = [scrape EXCEPT !.pc = "between", !.sub = 1, !.total_posts = 0,
                              !.items_at_start = fashion_data.total_items]
  /\ UNCHANGED <<fashion_data, corpus_file>>
  /\ ScraperFrame

\* back in the loop of scrape_all_fashion_subreddits with the value posts
\* returned by the scrape: total_posts += posts, then the next subreddit, or
\* the final save after the last one or when the target size is reached
AfterScrape(sc, data, posts, outcome) ==
  [sc EXCEPT !.total_posts = @ + posts,
             !.outcome = outcome,
             !.sub = @ + 1,
             !.pc = IF data.total_items >= TargetCorpusSize \/ sc.sub + 1 > Len(Subreddits)
                    THEN "final" ELSE "between"]

\* scrape_subreddit_realtime, up to its loop: the list of the subreddit is
\* made if there is none
scrape_subreddit_realtime ==
  /\ scrape.pc = "between"
  /\ fashion_data' = InitEntry(fashion_data, Subreddits[scrape.sub])
  /\ scrape' = [scrape EXCEPT !.pc = "loop", !.hot = 0, !.posts_scraped = 0,
                              !.len_at_start = Len(PostsOf(fashion_data, Subreddits[scrape.sub])),
                              !.saved = "none", !.outcome = "none"]
  /\ UNCHANGED corpus_file
  /\ ScraperFrame

\* the loop has ended, at the end of the listing or by the break: the
\* subreddit is recorded and posts_scraped returned
Finished(sc, data) ==
  LET recorded == MarkScraped(data, Subreddits[sc.sub])
  IN [data |-> recorded, sc |-> AfterScrape(sc, recorded, sc.posts_scraped, "returned")]

\* one iteration of the loop: subreddit.hot(limit=max_posts) gives one more
\* post, of at most max_posts; a relevant post is stored and counted, and the
\* save comes next.  The corpus of the model holds at most MaxItems posts.
examine_post ==
  /\ scrape.pc = "loop"
  /\ scrape.hot < max_posts
  /\ \E post \in HotPosts :
       /\ post \in RelevantHot => fashion_data.total_items < MaxItems
       /\ IF scrape.posts_scraped >= max_posts
          THEN /\ fashion_data' = Finished(scrape, fashion_data).data
               /\ scrape' = Finished(scrape, fashion_data).sc
          ELSE IF post \in RelevantHot
          THEN /\ fashion_data' = AppendPost(fashion_data, Subreddits[scrape.sub], post)
               /\ scrape' = [scrape EXCEPT !.pc = "save", !.hot = @ + 1,
                                           !.posts_scraped = @ + 1, !.saved = "none"]
          ELSE /\ scrape' = [scrape EXCEPT !.hot = @ + 1]
               /\ UNCHANGED fashion_data
  /\ UNCHANGED corpus_file
  /\ ScraperFrame

\* the listing has no more posts
end_of_listing ==
  /\ scrape.pc = "loop"
  /\ fashion_data' = Finished(scrape, fashion_data).data
  /\ scrape' = Finished(scrape, fashion_data).sc
  /\ UNCHANGED corpus_file
  /\ ScraperFrame

\* the listing raises while it is iterated over (a request for its next
\* posts fails): except Exception: return 0
scrape_raises ==
  /\ scrape.pc = "loop"
  /\ scrape.hot < max_posts
  /\ scrape' = AfterScrape(scrape, fashion_data, 0, "raised")
  /\ UNCHANGED <<fashion_data, corpus_file>>
  /\ ScraperFrame

\* save_data_realtime, after a post is stored and at the end of
\* scrape_all_fashion_subreddits, which then returns total_posts.  The save
\* succeeds; or os.makedirs raises; or last_updated is set and open raises; or
\* last_updated is set and the dump raises, leaving a part of the document
save_data_realtime ==
  /\ scrape.pc \in {"save", "final"}
  /\ \E outcome \in {"ok", "makedirs", "open", "dump"} :
       LET now == IF outcome = "ok" THEN "saved" ELSE "later"
           stamped == [fashion_data EXCEPT !.last_updated = now]
       IN /\ fashion_data' = IF outcome = "makedirs" THEN fashion_data ELSE stamped
          /\ corpus_file' = CASE outcome = "ok" -> stamped
                              [] outcome = "dump" -> BrokenFile
                              [] OTHER -> corpus_file
          /\ scrape' = [scrape EXCEPT
                          !.saved = IF outcome = "ok" THEN "ok" ELSE "failed",
                          !.pc = IF scrape.pc = "save" THEN "loop" ELSE "done",
                          !.ret = IF scrape.pc = "final" THEN scrape.total_posts ELSE @]
  /\ ScraperFrame

NextScraper ==
  \/ load_existing_data
  \/ scrape_all_fashion_subreddits
  \/ scrape_subreddit_realtime
  \/ examine_post
  \/ end_of_listing
  \/ scrape_raises
  \/ save_data_realtime

SpecScraper == InitScraper /\ [][NextScraper]_vars

(***************************************************************************)
(* gather_comprehensive_trends on a new analyzer                           *)
(***************************************************************************)
\* WebSearchAnalyzer.gather_comprehensive_trends: search_results is assigned
\* after the loop, unless an exception of the analysis leaves the method
gather_comprehensive_trends ==
  \E responses \in [1..Len(Queries) -> GatherData] :
    LET run == GatherFrom(1, responses, [searched |-> <<>>, all_trends |-> <<>>, exc |-> "none"])
    IN /\ call.fn = "none"
       /\ searched' = searched \o run.searched
       /\ search_results' = IF run.exc = "none" THEN run.all_trends ELSE search_results
       /\ call' = [fn |-> "gather_comprehensive_trends", args |-> <<>>,
                   ret |-> IF run.exc = "none" THEN run.all_trends ELSE <<>>,
                   exc |-> run.exc]
       /\ UNCHANGED <<set_order, fashion_data, corpus_file, scrape, pc, raw_data,
                      cleaned_data, reddit_keywords_arg, comparison>>

NextGather == gather_comprehensive_trends

SpecGather == Init /\ [][NextGather]_vars

(***************************************************************************)
(* Properties                                                              *)
(***************************************************************************)
\* A: the Reddit keywords passed to the comparison, as a set
RedditSet == ToSet(reddit_keywords_arg)

\* B: the union of the keyword lists of the stored web search results
WebSet == UNION {ToSet(search_results[i].keywords) : i \in 1..Len(search_results)}

\* C1: compare_reddit_web_trends returns common_keywords = A \cap B,
\* reddit_only = A \ B and web_only = B \ A as sets; the three sets are
\* pairwise disjoint and cover A \cup B; {saree} against {saree, lehenga}
\* gives common {saree}, reddit_only {} and web_only {lehenga}.
C1_ComparisonIsSetAlgebra ==
  pc.cmp = "returned" =>
    LET common == ToSet(comparison.common_keywords)
        r_only == ToSet(comparison.reddit_only)
        w_only == ToSet(comparison.web_only)
    IN /\ common = RedditSet \cap WebSet
       /\ r_only = RedditSet \ WebSet
       /\ w_only = WebSet \ RedditSet
       /\ common \cap r_only = {}
       /\ common \cap w_only = {}
       /\ r_only \cap w_only = {}
       /\ common \cup r_only \cup w_only = RedditSet \cup WebSet
       /\ (RedditSet = {"saree"} /\ WebSet = {"saree", "lehenga"}) =>
            (common = {"saree"} /\ r_only = {} /\ w_only = {"lehenga"})

C1_Witness ==
  /\ pc.cmp = "returned"
  /\ RedditSet = {"saree"}
  /\ WebSet = {"saree", "lehenga"}
  /\ comparison.common_keywords = <<"saree">>
  /\ comparison.reddit_only = <<>>
  /\ comparison.web_only = <<"lehenga">>

\* C2: the reported counts satisfy reddit_count = common_count + |reddit_only|
\* and web_count = common_count + |web_only|: each count is the cardinality
\* of that side's term set.
C2_CountsAreCardinalities ==
  pc.cmp = "returned" =>
    /\ comparison.reddit_count = comparison.common_count + Len(comparison.reddit_only)
    /\ comparison.web_count = comparison.common_count + Len(comparison.web_only)
    /\ comparison.reddit_count = Cardinality(RedditSet)
    /\ comparison.web_count = Cardinality(WebSet)

\* the comparison with the two sides exchanged: the Reddit keywords stored as
\* the web results, the web keywords passed as the Reddit keywords
SwappedComparison ==
  compare_reddit_web_trends(
    <<[query |-> SEARCH_QUERIES[1], keywords |-> reddit_keywords_arg]>>,
    ExtendKeywords(search_results))

\* the comparison with every repeated Reddit keyword passed once
DeduplicatedComparison ==
  compare_reddit_web_trends(search_results, ListOfSet(RedditSet))

\* C3: the comparison is symmetric and presence-only: exchanging the sides
\* keeps the common set and exchanges the two 'only' sets and the two side
\* counts, and repeating a term on either side changes nothing.
C3_SymmetricPresenceOnly ==
  pc.cmp = "returned" =>
    /\ ToSet(SwappedComparison.common_keywords) = ToSet(comparison.common_keywords)
    /\ ToSet(SwappedComparison.reddit_only) = ToSet(comparison.web_only)
    /\ ToSet(SwappedComparison.web_only) = ToSet(comparison.reddit_only)
    /\ SwappedComparison.reddit_count = comparison.web_count
    /\ SwappedComparison.web_count = comparison.reddit_count
    /\ DeduplicatedComparison = comparison

\* the (macro-region, sub-region) pairs in declaration order
RECURSIVE PairsOf(_)
PairsOf(regions) ==
  IF regions = <<>> THEN <<>>
  ELSE [k \in 1..Len(INDIAN_REGIONS[Head(regions)]) |->
          <<Head(regions), INDIAN_REGIONS[Head(regions)][k]>>]
       \o PairsOf(Tail(regions))

RegionPairs == PairsOf(RegionNames)

\* indices of the pairs whose sub-region name occurs in the text
MatchingPairs(text_lower) ==
  {i \in 1..Len(RegionPairs) : IsSubstring(Spell[RegionPairs[i][2]], text_lower)}

\* C4: detect_region returns the macro-region of the first pair, in declared
\* order, whose sub-region name is a substring of the lowercased text
\* (Unknown if none); the result is the same when the two parts of the text
\* are exchanged; a name listed under two macro-regions never resolves to the
\* later-declared one.
C4_RegionFirstDeclaredMatch ==
  call.fn = "detect_region" =>
    LET title == call.args[1]
        content == call.args[2]
        M == MatchingPairs(Lower(Join(title, content)))
    IN /\ M = {} => call.ret = "Unknown"
       /\ M # {} => call.ret = RegionPairs[CHOOSE i \in M : \A j \in M : i <= j][1]
       /\ detect_region(Join(content, title)) = call.ret
       /\ \A i \in M : \A j \in 1..Len(RegionPairs) :
            (i < j /\ RegionPairs[i][2] = RegionPairs[j][2]
                   /\ RegionPairs[i][1] # RegionPairs[j][1])
              => call.ret # RegionPairs[j][1]

C4_Witness ==
  /\ call.fn = "detect_region"
  /\ call.args = <<Fr_kerala, Fr_punjab>>
  /\ call.ret = "North_India"

RegionValues == ToSet(RegionNames) \cup {"Unknown"}

SubRegionNames == UNION {ToSet(INDIAN_REGIONS[r]) : r \in ToSet(RegionNames)}

\* C5: every post of cleaned_data carries one region value of the seven, and
\* it is Unknown exactly when no sub-region name is a substring of the
\* lowercased cleaned title + ' ' + content.
C5_OneRegionPerPost ==
  pc.pre = "preprocessed" =>
    \A i \in 1..Len(cleaned_data) :
      LET post == cleaned_data[i]
          text == Lower(Join(post.title, post.content))
      IN /\ post.region \in RegionValues
         /\ post.region = "Unknown" <=>
              ~ \E name \in SubRegionNames : IsSubstring(Spell[name], text)

C5_Witness ==
  /\ pc.pre = "preprocessed"
  /\ \E i \in 1..Len(cleaned_data) : cleaned_data[i].region = "Unknown"
  /\ \E i \in 1..Len(cleaned_data) :
       /\ cleaned_data[i].region = "East_India"
       /\ ~ IsSubstring(Fr_assam, Lower(cleaned_data[i].title))

\* C6: in the region map that detect_region reads, no sub-region name appears
\* under two different macro-regions.
C6_SubRegionsDisjoint ==
  call.fn = "detect_region" =>
    \A r1, r2 \in ToSet(RegionNames) :
      r1 # r2 => ToSet(INDIAN_REGIONS[r1]) \cap ToSet(INDIAN_REGIONS[r2]) = {}

\* some term of S is a substring of the text
MatchesAny(S, text_lower) == \E k \in S : IsSubstring(Spell[k], text_lower)

\* C7: is_fashion_relevant is true exactly when a taxonomy term of any facet
\* or a term of the function's fixed generic list is a substring of the
\* lowercased title + ' ' + content; 'I bought a new kurtain' is relevant.
C7_RelevantIffSubstring ==
  /\ call.fn = "is_fashion_relevant" =>
       call.ret = MatchesAny(fashion_keywords \cup ToSet(fashion_terms),
                             Lower(Join(call.args[1], call.args[2])))
  /\ call.fn = "scraper_is_fashion_relevant" =>
       call.ret = MatchesAny(fashion_keywords \cup ToSet(fashion_subreddits),
                             Lower(Join(call.args[1], call.args[2])))
  /\ (/\ call.fn \in {"is_fashion_relevant", "scraper_is_fashion_relevant"}
      /\ call.args = <<Txt_kurtain, <<>>>>) => call.ret = TRUE

C7_Witness ==
  /\ call.fn = "is_fashion_relevant"
  /\ call.args = <<Txt_kurtain, <<>>>>
  /\ call.ret = TRUE

\* the taxonomy terms that are substrings of the lowercased text
MatchedTerms(text) == {k \in fashion_keywords : IsSubstring(Spell[k], Lower(text))}

\* C8: the extracted keywords are exactly the taxonomy terms that are
\* substrings of the lowercased text, each once; the preprocessor, the
\* scraper and the web-search extractor return the same set for the same text.
C8_KeywordsAreMatchedTerms ==
  /\ call.fn \in {"extract_fashion_keywords", "scraper_extract_fashion_keywords"} =>
       LET text == Join(call.args[1], call.args[2])
           one_result == [organic |-> <<[title |-> call.args[1], snippet |-> call.args[2]]>>]
       IN /\ ToSet(call.ret) = MatchedTerms(text)
          /\ NoDuplicates(call.ret)
          /\ ToSet(extract_fashion_keywords(text)) = ToSet(scraper_extract_fashion_keywords(text))
          /\ ToSet(extract_trending_keywords(one_result)) = ToSet(call.ret)
          /\ NoDuplicates(extract_trending_keywords(one_result))
  /\ call.fn = "extract_trending_keywords" =>
       LET search_data == call.args[1]
       IN /\ NoDuplicates(call.ret)
          /\ ToSet(call.ret) =
               IF "organic" \in DOMAIN search_data
               THEN UNION {MatchedTerms(Join(Get(r, "title", <<>>), Get(r, "snippet", <<>>))) : r \in ToSet(search_data.organic)}
               ELSE {}

C8_Witness ==
  /\ call.fn = "extract_trending_keywords"
  /\ call.args = <<[organic |-> <<[title |-> Fr_Saree, snippet |-> <<>>],
                                  [title |-> Fr_Saree, snippet |-> Fr_Saree \o Fr_space \o Fr_kurta]>>]>>
  /\ ToSet(call.ret) = {"saree", "kurta"}
  /\ Len(call.ret) = 2

\* C9: clean_text is idempotent: cleaning a cleaned text changes nothing.
C9_CleanTextIdempotent ==
  call.fn = "clean_text" => clean_text(call.ret) = call.ret

C9_Witness ==
  /\ call.fn = "clean_text"
  /\ call.args \in {<<Txt_nested>>, <<Txt_assam_link>>}
  /\ call.ret \in {<<"a">>, Fr_assam}

\* C10: every character of clean_text's output is alphanumeric or a space,
\* the output has no leading or trailing space and no two consecutive spaces.
C10_CleanTextOutputShape ==
  call.fn = "clean_text" =>
    LET out == call.ret
    IN /\ \A i \in 1..Len(out) : out[i] \in LowerLetters \cup UpperLetters \cup Digits \cup {" "}
       /\ Len(out) > 0 => (out[1] # " " /\ out[Len(out)] # " ")
       /\ \A i \in 1..(Len(out) - 1) : ~ (out[i] = " " /\ out[i + 1] = " ")


\* the characters of a URI: unreserved, reserved and the percent sign
UriChars ==
  LowerLetters \cup UpperLetters \cup Digits \cup
  {"-", ".", "_", "~", ":", "/", "?", "#", "[", "]", "@", "!", "$", "&", "'",
   "(", ")", "*", "+", ",", ";", "=", "%"}

\* a URL-shaped substring starting at i: http:// or https:// followed by URI
\* characters; index of its last character, 0 if none starts at i
UrlShapedEnd(t, i) ==
  LET p == IF HasAt(t, i, <<"h","t","t","p","s",":","/","/">>) THEN i + 8
           ELSE IF HasAt(t, i, <<"h","t","t","p",":","/","/">>) THEN i + 7
           ELSE 0
      e == FirstNotIn(t, p, UriChars)
  IN IF p = 0 \/ e = p THEN 0 ELSE e - 1

\* the positions where w occurs in t
Occurrences(w, t) == {p \in 1..(Len(t) - Len(w) + 1) : HasAt(t, p, w)}

\* w occurs in the lowercased text, and each occurrence lies within a
\* URL-shaped substring of the text
OccursOnlyInsideUrl(w, text) ==
  LET occ == Occurrences(w, Lower(text))
  IN /\ occ # {}
     /\ \A p \in occ :
          \E i \in 1..p : UrlShapedEnd(text, i) >= p + Len(w) - 1

\* C11: a taxonomy term that occurs in a text only inside URL-shaped
\* substrings (http:// or https:// followed by URL characters) is not in the
\* cleaned text, and is not extracted from it as a keyword.
C11_TermsInsideUrlsRemoved ==
  call.fn = "clean_text" =>
    \A k \in fashion_keywords :
      OccursOnlyInsideUrl(Spell[k], call.args[1]) =>
        /\ ~ IsSubstring(Spell[k], Lower(call.ret))
        /\ k \notin ToSet(extract_fashion_keywords(call.ret))


\* the posts of the subreddit entries of a corpus file, in order
RECURSIVE RawPosts(_)
RawPosts(entries) ==
  IF entries = <<>> THEN <<>>
  ELSE (IF Head(entries).name = "scrape_info" THEN <<>> ELSE Head(entries).posts)
       \o RawPosts(Tail(entries))

\* the corpus file with the posts satisfying Drop left out
Without(entries, Drop(_)) ==
  [i \in 1..Len(entries) |->
     [name |-> entries[i].name,
      posts |-> SelectSeq(entries[i].posts, LAMBDA p : ~ Drop(p))]]

\* the field is missing, null, or a str
TextOrAbsent(post, key) ==
  key \notin DOMAIN post \/ post[key] = None \/ IsStr(post[key])

WellTyped(post) ==
  IsMapping(post) /\ TextOrAbsent(post, "title") /\ TextOrAbsent(post, "body")

\* C12: clean_text returns the empty string for an empty or null input without
\* failing, and preprocess_data does not fail on a batch whose documents have a
\* title and a body that are each text, missing or null.
C12_NoFailureOnMissingFields ==
  call.fn = "preprocess_data" =>
    /\ \A text \in {None, <<>>} :
         clean_text_raises(text) = "none" /\ clean_text(text) = <<>>
    /\ (\A i \in 1..Len(RawPosts(raw_data)) : WellTyped(RawPosts(raw_data)[i]))
         => (call.exc = "none" /\ pc.pre = "preprocessed")

C12_Witness ==
  /\ call.fn = "preprocess_data"
  /\ call.exc = "none"
  /\ RawPosts(raw_data) = <<[title |-> Fr_Saree], [title |-> None, body |-> Fr_kurta]>>
  /\ Len(cleaned_data) = 2
  /\ cleaned_data[1].content = <<>>
  /\ cleaned_data[2].title = <<>>

\* the title and the body are both missing, null or empty
Blank(post) ==
  /\ IsMapping(post)
  /\ Get(post, "title", <<>>) \in {<<>>, None}
  /\ Get(post, "body", <<>>) \in {<<>>, None}

\* C13: a document whose title and body are both absent or empty raises no
\* error and is not relevant: preprocess_data ends as it does on the batch
\* without such documents, and no post of cleaned_data is without text.
C13_BlankDocumentsExcluded ==
  call.fn = "preprocess_data" =>
    /\ call.exc = SubredditsException(Without(raw_data, Blank))
    /\ call.exc = "none" =>
         /\ cleaned_data = CleanSubreddits(Without(raw_data, Blank))
         /\ \A i \in 1..Len(cleaned_data) :
              cleaned_data[i].title # <<>> \/ cleaned_data[i].content # <<>>

C13_Witness ==
  /\ call.fn = "preprocess_data"
  /\ call.exc = "none"
  /\ RawPosts(raw_data) \in {<<[id |-> Fr_a1], [title |-> Fr_Saree]>>,
                             <<[title |-> Fr_Saree], [title |-> <<>>, body |-> None]>>}
  /\ Len(cleaned_data) = 1
  /\ cleaned_data[1].keywords = <<"saree">>

\* processing the document fails
Malformed(post) == PostException(post) # "none"

\* C14: a malformed document is excluded alone: preprocess_data completes, and
\* cleaned_data holds what the batch without the malformed documents gives.
C14_MalformedDocumentsExcludedAlone ==
  call.fn = "preprocess_data" =>
    /\ call.exc = "none"
    /\ cleaned_data = CleanSubreddits(Without(raw_data, Malformed))


\* the frequency tables of the web trending summary
SummaryTables ==
  {"top_keywords", "top_brands", "top_regions", "top_fabrics", "top_occasions",
   "popular_sources"}

Keys(table) == {table[i].key : i \in 1..Len(table)}

PositiveCounts(table) ==
  /\ \A i \in 1..Len(table) : table[i].count \in Nat /\ table[i].count >= 1
  /\ \A i, j \in 1..Len(table) : table[i].key = table[j].key => i = j

\* C15: every count stored in a frequency table (the facet tables of the web
\* trending summary, the Reddit brand-mention table) is an integer >= 1, and a
\* term without occurrences has no entry.
C15_StoredCountsPositive ==
  /\ (call.fn = "get_trending_summary" /\ call.ret # <<>>) =>
       \A f \in SummaryTables :
         /\ PositiveCounts(call.ret[f])
         /\ Keys(call.ret[f]) =
              UNION {ToSet(FacetLists(search_results, IF f = "top_keywords" THEN "keywords"
                                        ELSE IF f = "top_brands" THEN "brand_mentions"
                                        ELSE IF f = "top_regions" THEN "regional_mentions"
                                        ELSE IF f = "top_fabrics" THEN "fabric_mentions"
                                        ELSE IF f = "top_occasions" THEN "occasion_mentions"
                                        ELSE "popular_sources")[i]) :
                     i \in 1..Len(search_results)}
  /\ (call.fn = "analyze_brand_trends" /\ call.ret # NoResult) =>
       LET table == call.ret.reddit_brands
           text == Lower(all_text(cleaned_data))
       IN /\ PositiveCounts(table)
          /\ \A brand \in ToSet(INDIAN_FASHION_KEYWORDS["indian_brands"]) :
               brand \in Keys(table) <=> IsSubstring(Spell[brand], text)

C15_Witness ==
  /\ call.fn = "analyze_brand_trends"
  /\ call.ret # NoResult
  /\ call.ret.reddit_brands = <<[key |-> "fabindia", count |-> 1], [key |-> "biba", count |-> 2]>>

\* the place of k in the declaration order
DeclIndex(universe, k) == CHOOSE i \in 1..Len(universe) : universe[i] = k

DescendingThenDeclared(table, universe) ==
  \A i, j \in 1..Len(table) :
    i < j =>
      \/ table[i].count > table[j].count
      \/ /\ table[i].count = table[j].count
         /\ DeclIndex(universe, table[i].key) < DeclIndex(universe, table[j].key)

\* C16: each facet table of get_trending_summary is in descending order of
\* count, and terms of equal count are in taxonomy declaration order.
C16_TablesSortedTiesDeclared ==
  (call.fn = "get_trending_summary" /\ call.ret # <<>>) =>
    /\ DescendingThenDeclared(call.ret.top_keywords, AllKeywords)
    /\ DescendingThenDeclared(call.ret.top_brands, AllKeywords)
    /\ DescendingThenDeclared(call.ret.top_regions, RegionNames)

\* C17: the tables returned by aggregation are complete: every term of an
\* aggregated document has an entry, none is cut off at a top N.
C17_TablesComplete ==
  /\ (call.fn = "get_trending_summary" /\ call.ret # <<>>) =>
       \A i \in 1..Len(search_results) :
         ToSet(search_results[i].keywords) \subseteq Keys(call.ret.top_keywords)
  /\ (call.fn = "get_statistics" /\ call.ret # <<>>) =>
       ToSet(all_keywords(cleaned_data)) \subseteq DOMAIN call.ret.top_keywords
  /\ (call.fn = "analyze_trending_keywords" /\ call.ret # NoResult) =>
       ToSet(all_keywords(cleaned_data)) \subseteq DOMAIN call.ret.reddit_keywords

\* list(S) in a process whose sets iterate in the given order
ListInOrder(order, S) ==
  SelectSeq(IF order = "declared" THEN AllKeywords ELSE Reverse(AllKeywords),
            LAMBDA k : k \in S)

\* C18: the same input gives the same output in every run, element order of
\* the keyword lists included, whatever order the sets iterate in: the list
\* returned is the list the call returns under each set order.
C18_OutputIndependentOfSetOrder ==
  call.fn \in {"extract_trending_keywords", "extract_fashion_keywords"} =>
    \A order \in SetOrders : call.ret = ListInOrder(order, ToSet(call.ret))

CountOf(table, k) ==
  IF k \in Keys(table)
  THEN table[CHOOSE i \in 1..Len(table) : table[i].key = k].count
  ELSE 0

\* a facet table of a summary, empty when the summary is {}
TableOf(summary, f) == IF f \in DOMAIN summary THEN summary[f] ELSE <<>>

IndexPermutations(n) ==
  {p \in [1..n -> 1..n] : \A i, j \in 1..n : p[i] = p[j] => i = j}

\* the entries of results at the indices of I, in order
EntriesAt(results, I) ==
  LET F[i \in 0..Len(results)] ==
        IF i = 0 THEN <<>>
        ELSE IF i \in I THEN Append(F[i - 1], results[i]) ELSE F[i - 1]
  IN F[Len(results)]

\* C19: the counts of get_trending_summary do not depend on the order of the
\* stored searches, and the counts of two disjoint parts add up, term by term,
\* to the counts of the whole.
C19_CountsOrderIndependentAdditive ==
  call.fn = "get_trending_summary" =>
    \A f \in SummaryTables :
      LET whole == TableOf(call.ret, f)
          n == Len(search_results)
      IN /\ \A p \in IndexPermutations(n) :
              LET permuted == TableOf(get_trending_summary([i \in 1..n |-> search_results[p[i]]]), f)
              IN \A k \in Keys(whole) \cup Keys(permuted) :
                   CountOf(permuted, k) = CountOf(whole, k)
         /\ \A I \in SUBSET (1..n) :
              LET part1 == TableOf(get_trending_summary(EntriesAt(search_results, I)), f)
                  part2 == TableOf(get_trending_summary(EntriesAt(search_results, (1..n) \ I)), f)
              IN \A k \in Keys(whole) \cup Keys(part1) \cup Keys(part2) :
                   CountOf(part1, k) + CountOf(part2, k) = CountOf(whole, k)

C19_Witness ==
  /\ call.fn = "get_trending_summary"
  /\ Len(search_results) = 2
  /\ search_results[1].keywords # search_results[2].keywords
  /\ call.ret # <<>>
  /\ CountOf(call.ret.top_keywords, "kurta") = 2
  /\ CountOf(call.ret.top_keywords, "saree") = 1
  /\ CountOf(call.ret.top_brands, "fabindia") = 2

\* C20: aggregation over zero documents completes and returns every facet
\* table, empty, with a document count of 0.
C20_EmptyAggregationHasEmptyTables ==
  /\ (call.fn = "get_trending_summary" /\ search_results = <<>>) =>
       /\ call.exc = "none"
       /\ \A f \in SummaryTables : f \in DOMAIN call.ret /\ call.ret[f] = <<>>
       /\ "document_count" \in DOMAIN call.ret /\ call.ret.document_count = 0
  /\ (call.fn = "get_statistics" /\ cleaned_data = <<>>) =>
       /\ call.exc = "none"
       /\ "total_posts" \in DOMAIN call.ret /\ call.ret.total_posts = 0

\* C21: report assembly fails with a missing-source error exactly when a
\* source it refers to is absent from its input; here the Reddit source is
\* absent when no cleaned post is loaded
C21_MissingSourceSignalled ==
  call.fn = "generate_comprehensive_report" =>
    (call.exc = "MissingSourceError" <=> cleaned_data = <<>>)

\* the positions of the occurrences of brand w in the lowercased title and in
\* the lowercased content of every post, as <<post, part, position>>
PostOccurrences(w, posts) ==
  UNION {{<<i, "title", p>> : p \in Occurrences(w, Lower(posts[i].title))}
         \cup {<<i, "content", p>> : p \in Occurrences(w, Lower(posts[i].content))} :
           i \in 1..Len(posts)}

\* C22: the count stored for a brand by analyze_brand_trends is the number of
\* its occurrences in the titles and contents of the cleaned posts, post by
\* post: joining the texts adds no occurrence across a boundary and a brand
\* occurring k times in a post counts k times
C22_BrandCountsAreOccurrences ==
  (call.fn = "analyze_brand_trends" /\ cleaned_data # <<>>) =>
    \A b \in ToSet(INDIAN_FASHION_KEYWORDS["indian_brands"]) :
      CountOf(call.ret.reddit_brands, b) = Cardinality(PostOccurrences(Spell[b], cleaned_data))

\* two posts mention a brand, one of them twice, and the brand is stored with 3
C22_Witness ==
  /\ call.fn = "analyze_brand_trends"
  /\ Len(cleaned_data) = 2
  /\ \E b \in ToSet(INDIAN_FASHION_KEYWORDS["indian_brands"]) :
       /\ CountOf(call.ret.reddit_brands, b) = 3
       /\ \E i \in 1..2 :
            Cardinality(Occurrences(Spell[b], Lower(cleaned_data[i].title))) = 2

\* the raw posts of the sources, each with the name of its source, in the
\* order of the file; the envelope is not a source
RECURSIVE SourcePosts(_)
SourcePosts(entries) ==
  IF entries = <<>> THEN <<>>
  ELSE (IF Head(entries).name = "scrape_info" THEN <<>>
        ELSE [i \in 1..Len(Head(entries).posts) |->
                [name |-> Head(entries).name, post |-> Head(entries).posts[i]]])
       \o SourcePosts(Tail(entries))

\* the cleaned title and the cleaned body of the post are classified relevant
Relevant(post) ==
  is_fashion_relevant(clean_text(Get(post, "title", <<>>)),
                      clean_text(Get(post, "body", <<>>)))

\* C23: after preprocess_data has completed, cleaned_data holds exactly the
\* relevant raw posts, each once, in the order of the posts within each source
\* and of the sources in the file; the envelope is no source; the count
\* returned is the length of cleaned_data.
C23_CleanedDataIsRelevantPostsInOrder ==
  (call.fn = "preprocess_data" /\ call.exc = "none") =>
    LET kept == SelectSeq(SourcePosts(raw_data), LAMBDA e : Relevant(e.post))
    IN /\ Len(cleaned_data) = Len(kept)
       /\ \A j \in 1..Len(kept) :
            /\ cleaned_data[j].subreddit = kept[j].name
            /\ cleaned_data[j].title = clean_text(Get(kept[j].post, "title", <<>>))
            /\ cleaned_data[j].content = clean_text(Get(kept[j].post, "body", <<>>))
       /\ \A j \in 1..Len(cleaned_data) : cleaned_data[j].subreddit # "scrape_info"
       /\ call.ret = Len(cleaned_data)

\* two sources, a post dropped, and a post kept from each source
C23_Witness ==
  /\ call.fn = "preprocess_data"
  /\ call.exc = "none"
  /\ Len(raw_data) = 3
  /\ Len(SourcePosts(raw_data)) > Len(cleaned_data)
  /\ \E i, j \in 1..Len(cleaned_data) :
       i < j /\ cleaned_data[i].subreddit = raw_data[2].name
             /\ cleaned_data[j].subreddit = raw_data[3].name

\* C24: the derivation steps do not change what they derive from: no call of
\* preprocess_data, get_trending_summary or compare_reddit_web_trends, first or
\* repeated, changes raw_data or the stored search_results, and after a
\* comparison the caller's keyword list is still the list compared
C24_InputsNotMutated ==
  [][/\ raw_data' = raw_data
     /\ search_results' = search_results
     /\ (comparison' # comparison \/ reddit_keywords_arg' # reddit_keywords_arg) =>
          comparison' = compare_reddit_web_trends(search_results', reddit_keywords_arg')]_vars

\* the three steps have been called on posts, stored results and a Reddit list
C24_Witness ==
  /\ pc.pre = "preprocessed"
  /\ pc.cmp = "returned"
  /\ call.fn = "get_trending_summary"
  /\ cleaned_data # <<>>
  /\ Len(search_results) = 2
  /\ reddit_keywords_arg = <<"saree", "saree">>
  /\ comparison.common_count = 1

\* the facets analyze_search_trends looks up
FacetsLookedUp == {"indian_brands", "fabrics_materials", "occasions"}

\* C25: every facet a component looks up is defined in the taxonomy, and
\* analyze_search_trends completes and returns its analysis for every search
\* response with a non-empty result list
C25_LookedUpFacetsDefined ==
  (call.fn = "analyze_search_trends" /\ Organic(call.args[1]) # <<>>) =>
    /\ FacetsLookedUp \subseteq DOMAIN INDIAN_FASHION_KEYWORDS
    /\ call.exc = "none"
    /\ call.ret.total_results = Len(Organic(call.args[1]))

\* the queries whose search returned something
Succeeded ==
  SelectSeq([i \in 1..Len(searched) |-> searched[i].query],
            LAMBDA q : \E i \in 1..Len(searched) :
                         searched[i].query = q /\ searched[i].response # NoData)

\* C28: gather_comprehensive_trends attempts every configured query once, in
\* declared order, a failed search not stopping the later ones, and afterwards
\* search_results has an entry for exactly the queries whose search succeeded
C28_EveryQueryAttemptedOnce ==
  call.fn = "gather_comprehensive_trends" =>
    /\ [i \in 1..Len(searched) |-> searched[i].query] = Queries
    /\ [i \in 1..Len(search_results) |-> search_results[i].query] = Succeeded

\* the number of posts stored in the lists of the subreddits
RECURSIVE SumOfLengths(_)
SumOfLengths(entries) ==
  IF entries = <<>> THEN 0 ELSE Len(Head(entries).posts) + SumOfLengths(Tail(entries))

StoredPosts(data) == SumOfLengths(data.entries)

\* the file holds a corpus
IsCorpus(file) == file \notin {NoFile, BrokenFile}

\* C26: whenever the data is saved, scrape_info.total_items is the number of
\* posts stored in the lists of the subreddits, in memory and in the file
\* written, also after scrapes that raised part-way; total_items of a scraper
\* never decreases.
C26_TotalItemsCountsStoredPosts ==
  [][/\ scrape'.pc \in {"save", "final", "done"} =>
          fashion_data'.total_items = StoredPosts(fashion_data')
     /\ IsCorpus(corpus_file') => corpus_file'.total_items = StoredPosts(corpus_file')
     /\ scrape'.pc # "ready" => fashion_data'.total_items >= fashion_data.total_items]_vars

\* a scraper that loaded a corpus with posts has stored a post of the last
\* subreddit and then its scrape raised
C26_Witness ==
  /\ scrape.pc = "final"
  /\ scrape.outcome = "raised"
  /\ scrape.items_at_start >= 1
  /\ scrape.posts_scraped >= 1
  /\ fashion_data.total_items > scrape.items_at_start

\* C27: after every stored post a save of the whole corpus is attempted
\* before the next post is examined; after a save that succeeded the file
\* holds the corpus in memory; a save that failed does not stop the scrape and
\* leaves the corpus in memory as it was.
C27_SaveAfterEveryStoredPost ==
  [][/\ (StoredPosts(fashion_data') > StoredPosts(fashion_data) /\ scrape'.pc # "ready")
          => scrape'.pc = "save"
     /\ scrape.pc = "save" => (scrape'.pc = "loop" /\ scrape'.saved \in {"ok", "failed"})
     /\ (scrape.pc \in {"save", "final"} /\ scrape'.saved = "ok")
          => corpus_file' = fashion_data'
     /\ (scrape.pc \in {"save", "final"} /\ scrape'.saved = "failed")
          => fashion_data' = fashion_data]_vars

\* C29: subreddits_scraped never holds a subreddit twice, over any number of
\* runs on the same corpus; a subreddit is recorded only when its scrape loop
\* has ended without an exception; a scrape adds at most max_posts posts to
\* the list of its subreddit.
C29_RecordedOnceAfterCompleteScrape ==
  [][/\ NoDuplicates(fashion_data'.subreddits_scraped)
     /\ IsCorpus(corpus_file') => NoDuplicates(corpus_file'.subreddits_scraped)
     /\ (fashion_data'.subreddits_scraped # fashion_data.subreddits_scraped
         /\ scrape'.pc # "ready")
          => /\ scrape.pc = "loop"
             /\ scrape'.outcome = "returned"
             /\ fashion_data'.subreddits_scraped =
                  Append(fashion_data.subreddits_scraped, Subreddits[scrape.sub])
     /\ scrape'.pc \in {"loop", "save"} =>
          /\ Len(PostsOf(fashion_data', Subreddits[scrape'.sub])) - scrape'.len_at_start
               = scrape'.posts_scraped
          /\ scrape'.posts_scraped <= max_posts]_vars

\* a later run: the file written by an earlier run records both subreddits,
\* and the scrape of the first subreddit has ended again, without a save
C29_Witness ==
  /\ scrape.pc = "between"
  /\ scrape.sub = 2
  /\ scrape.outcome = "returned"
  /\ scrape.posts_scraped = 0
  /\ IsCorpus(corpus_file)
  /\ Len(corpus_file.subreddits_scraped) = 2
  /\ fashion_data.subreddits_scraped = corpus_file.subreddits_scraped

\* C30: scrape_all_fashion_subreddits returns the number of posts added to
\* the corpus during the run, the increase of total_items, whatever the
\* outcome of the scrapes.
C30_ReturnsPostsAdded ==
  scrape.pc = "done" => scrape.ret = fashion_data.total_items - scrape.items_at_start

=============================================================================
